---------------------------- MODULE Spec2Model ----------------------------
(***************************************************************************)
(* Model of the compliance and assembly core of the legal automation       *)
(* engine: the evidence registry and citation-enforcing drafter            *)
(* (evidence_aware_drafter.py), the jurisdiction registry and compliance   *)
(* validator (jurisdiction_registry.py), and the model router with its     *)
(* fallback chains and performance log (multi_model_fileboss.py).          *)
(*                                                                         *)
(* Python str values are sequences of one-character strings, so that       *)
(* len(), slicing, concatenation, substring tests, lower() and the regular *)
(* expressions of the drafter are computed and not assumed.  Optional[T]   *)
(* is the empty sequence (None) or a one-element sequence <<v>>.           *)
(***************************************************************************)
EXTENDS Integers, Sequences, FiniteSets, TLC

VARIABLES
    evidence,      \* EvidenceRegistry.evidence : source_id -> EvidenceSource
    citations,     \* EvidenceAwareDrafter.citations : list of Citation
    profiles,      \* JurisdictionRegistry.profiles : court_id -> CourtProfile
    performance_log, \* ModelRouter.performance_log : list of TaskResult
    model_profiles,  \* ModelRouter.profiles : ModelType -> ModelProfile
    fallback_chains, \* ModelRouter.fallback_chains : TaskType -> list of ModelType
    frame,         \* the call in progress when a call is taken step by step:
                   \* its position and locals; None between calls
    ret            \* outcome of the last call: what it returned or raised

vars == <<evidence, citations, profiles, performance_log, model_profiles,
          fallback_chains, frame, ret>>

---------------------------------------------------------------------------
(* Bounds of the model *)

MaxCitations == 2      \* successful draft_paragraph calls explored
MaxLog == 3            \* entries of the performance log explored

---------------------------------------------------------------------------
(* Python built-ins on str and list *)

None == <<>>
Some(v) == <<v>>

\* The printable ASCII characters in code order, 32 (space) to 126 (~);
\* code 96 is held by a placeholder that no character of the model equals.
Printable ==
    <<" ", "!", "\"", "#", "$", "%", "&", "'", "(", ")", "*", "+", ",", "-",
      ".", "/", "0", "1", "2", "3", "4", "5", "6", "7", "8", "9", ":", ";",
      "<", "=", ">", "?", "@", "A", "B", "C", "D", "E", "F", "G", "H", "I",
      "J", "K", "L", "M", "N", "O", "P", "Q", "R", "S", "T", "U", "V", "W",
      "X", "Y", "Z", "[", "\\", "]", "^", "_", "<backtick>", "a", "b", "c", "d", "e",
      "f", "g", "h", "i", "j", "k", "l", "m", "n", "o", "p", "q", "r", "s",
      "t", "u", "v", "w", "x", "y", "z", "{", "|", "}", "~">>

\* ord(c)
Ord(c) ==
    IF c = "\n" THEN 10
    ELSE 31 + (CHOOSE i \in 1..Len(Printable) : Printable[i] = c)

\* chr(n) for a printable code
Chr(n) == Printable[n - 31]

\* str < str : Python compares strings by code point, shorter prefix first.
RECURSIVE StrLess(_, _)
StrLess(a, b) ==
    IF Len(b) = 0 THEN FALSE
    ELSE IF Len(a) = 0 THEN TRUE
    ELSE IF Head(a) = Head(b) THEN StrLess(Tail(a), Tail(b))
    ELSE Ord(Head(a)) < Ord(Head(b))

\* str(n) for an int n >= 0
RECURSIVE IntToStr(_)
IntToStr(n) ==
    IF n < 10 THEN <<Chr(48 + n)>>
    ELSE IntToStr(n \div 10) \o <<Chr(48 + (n % 10))>>

\* sep.join(parts)
RECURSIVE Join(_, _)
Join(parts, sep) ==
    IF Len(parts) = 0 THEN <<>>
    ELSE IF Len(parts) = 1 THEN parts[1]
    ELSE parts[1] \o sep \o Join(Tail(parts), sep)

\* s[:n]
Prefix(s, n) == SubSeq(s, 1, IF Len(s) < n THEN Len(s) ELSE n)

\* bool(x) of an Optional[str] or Optional[list]: None and empty are falsy
Truthy(opt) == opt # None /\ Len(opt[1]) > 0

\* c.lower() of one character, s.lower() of a str
UpperCase == {Printable[i] : i \in 34..59}
LowerChar(c) ==
    IF c \in UpperCase THEN Chr(Ord(c) + 32) ELSE c
Lower(s) == [i \in 1..Len(s) |-> LowerChar(s[i])]

\* needle in hay
Contains(hay, needle) ==
    LET h == hay
        n == needle
        last == Len(h) - Len(n) + 1
    IN  \E i \in 1..last : \A k \in 1..Len(n) : h[i + k - 1] = n[k]

\* str(x) of a float with one decimal, held in tenths: 20 is 2.0
FloatToStr(tenths) ==
    IntToStr(tenths \div 10) \o <<".">> \o IntToStr(tenths % 10)

\* values of an untyped dict: a tag and the value
PyBool(b) == [tag |-> "bool", val |-> b]
PyStr(x) == [tag |-> "str", val |-> x]
PyInt(n) == [tag |-> "int", val |-> n]
PyTruthy(v) ==
    CASE v.tag = "bool" -> v.val
      [] v.tag = "str"  -> Len(v.val) > 0
      [] v.tag = "int"  -> v.val # 0

---------------------------------------------------------------------------
(* Input domains *)

SourceIds == {"e1", "e2"}

\* EvidenceSource values passed to register: with and without exhibit
\* label, with no, one and several pages, two sources sharing a label.
EvidencePool ==
    { [source_id |-> "e1", description |-> <<"X">>,
       page_numbers |-> Some(<<1, 2, 3>>), exhibit_number |-> Some(<<"A">>)],
      [source_id |-> "e1", description |-> <<"Z">>,
       page_numbers |-> Some(<<5>>), exhibit_number |-> Some(<<>>)],
      [source_id |-> "e1", description |-> <<"V">>,
       page_numbers |-> None, exhibit_number |-> None],
      [source_id |-> "e2", description |-> <<"Y">>,
       page_numbers |-> None, exhibit_number |-> Some(<<"A">>)],
      [source_id |-> "e2", description |-> <<"W">>,
       page_numbers |-> Some(<<>>), exhibit_number |-> Some(<<"B", "2">>)],
      [source_id |-> "e2", description |-> <<"U">>,
       page_numbers |-> Some(<<10, 12>>), exhibit_number |-> Some(<<"B", "1", "0">>)] }

\* evidence_ids lists passed to draft_paragraph: empty, single, repeated,
\* and both orders of two ids
IdLists ==
    { <<>>, <<"e1">>, <<"e2">>, <<"e1", "e1">>, <<"e1", "e2">>,
      <<"e2", "e1">>, <<"e2", "e2">> }

\* ids looked up in the registry: "e3" is the id of no EvidenceSource
LookupIds == SourceIds \cup {"e3"}

LookupLists == IdLists \cup { <<"e3">>, <<"e1", "e3", "e2", "e3">> }

\* arguments of the calls that are interleaved
WriterPool ==
    {e \in EvidencePool : e.description \in {<<"X">>, <<"V">>, <<"Y">>}}

InterleavedIdLists == { <<>>, <<"e1">>, <<"e1", "e2">> }

\* n spaces
Pad(n) == [i \in 1..n |-> " "]

\* a paragraph longer than the citation-proximity window
LongContent == [i \in 1..260 |-> "x"]

Contents == { <<>>, <<"T", "e", "s", "t">> }

\* paragraph texts of the scan specification: locations 0, 4 and 260
ScanContents == { <<>>, <<"T", "e", "s", "t">>, LongContent }

PhraseRespondent == <<"R", "e", "s", "p", "o", "n", "d", "e", "n", "t", " ", "J", "o", "h",
      "n", " ", "r", "e", "f", "u", "s", "e", "d", " ", "t", "o">>
PhraseDate == <<"O", "n", " ", "M", "a", "y", " ", "1", ",", " ", "2", "0", "2", "4">>
PhraseMoney == <<"$", "1", ",", "0", "0", "0">>
PhraseQuantified == <<"3", " ", "t", "i", "m", "e", "s">>
\* text that resembles the claim patterns without matching them
NearMisses == 
    <<"R", "e", "s", "p", "o", "n", "d", "e", "n", "t", " ", "d", "i", "d",
      ".", " ", "O", "n", " ", "M", "a", "y", " ", "1", " ", "2", "0", "2",
      "4", " ", "$", " ", "1", "2", " ", "t", "i", "m", "e", "l", "y", " ",
      "O", "n", " ", "5", ",", " ", "2", "4", " ", "7", "t", "i", "m", "e",
      "s", "_">>

\* short document texts: no claim, one claim at offset 0
ShortDocuments == { <<>>, <<"$", "5">> }

\* Assembled document texts of the scan specification: claim phrases at
\* chosen offsets from the locations 0, 4 and 260 that ScanContents produces.
Documents ==
    { <<>>,
      Pad(54) \o <<"$", "5">> \o Pad(448) \o <<"$", "7">>,
      Pad(204) \o PhraseQuantified,
      Pad(203) \o PhraseDate,
      Pad(60) \o PhraseMoney \o Pad(1) \o PhraseRespondent,
      PhraseRespondent \o Pad(181) \o PhraseDate \o Pad(300) \o PhraseQuantified,
      NearMisses }

---------------------------------------------------------------------------
(* Outcome of a call *)

NoRet ==
    [op |-> "none", raised |-> FALSE, error |-> "", missing |-> <<>>,
     preview |-> <<>>, suffix |-> <<>>, text |-> <<>>, flag |-> FALSE, items |-> <<>>,
     content |-> <<>>, ids |-> <<>>, require |-> FALSE,
     path |-> "", court |-> "",
     task |-> "", context |-> <<>>, priority |-> "", candidates |-> <<>>,
     model |-> <<>>, outcomes |-> <<>>, result |-> <<>>, stats |-> <<>>,
     source |-> <<>>]

---------------------------------------------------------------------------
(* EvidenceRegistry *)

\* register starting the table afresh with the new record
RegisterAlone(e) ==
    /\ evidence' = [k \in {e.source_id} |-> e]
    /\ ret' = [NoRet EXCEPT !.op = "register", !.source = Some(e)]
    /\ UNCHANGED <<citations, profiles, performance_log,
                   model_profiles, fallback_chains, frame>>

\* register keeping the record an id already has
RegisterKeepsFirst(e) ==
    /\ evidence' = [k \in DOMAIN evidence \cup {e.source_id} |->
                       IF k \in DOMAIN evidence THEN evidence[k] ELSE e]
    /\ ret' = [NoRet EXCEPT !.op = "register", !.source = Some(e)]
    /\ UNCHANGED <<citations, profiles, performance_log,
                   model_profiles, fallback_chains, frame>>

\* EvidenceRegistry.register; ret.source is the record passed
Register(e) ==
    /\ evidence' = [k \in DOMAIN evidence \cup {e.source_id} |->
                       IF k = e.source_id THEN e ELSE evidence[k]]
    /\ ret' = [NoRet EXCEPT !.op = "register", !.source = Some(e)]
    /\ UNCHANGED <<citations, profiles, performance_log,
                   model_profiles, fallback_chains, frame>>

\* EvidenceRegistry.get
Get(reg, source_id) ==
    IF source_id \in DOMAIN reg THEN Some(reg[source_id]) ELSE None

\* validate_citations stopping at the first id not found
ValidateCitationsFailFast(reg, citation_ids) ==
    LET missing == SelectSeq(citation_ids, LAMBDA cid : cid \notin DOMAIN reg)
    IN  <<Len(missing) = 0, IF Len(missing) = 0 THEN <<>> ELSE <<missing[1]>> >>

\* EvidenceRegistry.validate_citations
ValidateCitations(reg, citation_ids) ==
    LET missing == SelectSeq(citation_ids, LAMBDA cid : cid \notin DOMAIN reg)
    IN  <<Len(missing) = 0, missing>>

\* a call of EvidenceRegistry.get
GetCall(source_id) ==
    /\ ret' = [NoRet EXCEPT !.op = "get", !.ids = <<source_id>>,
                            !.source = Get(evidence, source_id)]
    /\ UNCHANGED <<evidence, citations, profiles, performance_log,
                   model_profiles, fallback_chains, frame>>

\* a call of EvidenceRegistry.validate_citations
ValidateCitationsCall(citation_ids) ==
    LET valid == ValidateCitations(evidence, citation_ids)
    IN  /\ ret' = [NoRet EXCEPT !.op = "validate_citations",
                                !.ids = citation_ids,
                                !.flag = valid[1], !.missing = valid[2]]
        /\ UNCHANGED <<evidence, citations, profiles, performance_log,
                       model_profiles, fallback_chains, frame>>

---------------------------------------------------------------------------
(* EvidenceAwareDrafter *)

\* cite_parts taking the second page, not the last, as the end of a range
CitePartsSecondPage(ev) ==
    LET label == IF Truthy(ev.exhibit_number)
                 THEN << <<"E", "x", ".", " ">> \o ev.exhibit_number[1] >>
                 ELSE <<>>
        pages == IF Truthy(ev.page_numbers)
                 THEN LET pn == ev.page_numbers[1]
                      IN  IF Len(pn) = 1
                          THEN << <<"p", ".", " ">> \o IntToStr(pn[1]) >>
                          ELSE << <<"p", "p", ".", " ">> \o IntToStr(pn[1])
                                  \o <<"-">> \o IntToStr(pn[2]) >>
                 ELSE <<>>
    IN  label \o pages

\* the cite_parts of one evidence source
CiteParts(ev) ==
    LET label == IF Truthy(ev.exhibit_number)
                 THEN << <<"E", "x", ".", " ">> \o ev.exhibit_number[1] >>
                 ELSE <<>>
        pages == IF Truthy(ev.page_numbers)
                 THEN LET pn == ev.page_numbers[1]
                      IN  IF Len(pn) = 1
                          THEN << <<"p", ".", " ">> \o IntToStr(pn[1]) >>
                          ELSE << <<"p", "p", ".", " ">> \o IntToStr(pn[1])
                                  \o <<"-">> \o IntToStr(pn[Len(pn)]) >>
                 ELSE <<>>
    IN  label \o pages

\* the loop of _format_citations from index i on, appending to acc
RECURSIVE FormatLoop(_, _, _, _)
FormatLoop(reg, evidence_ids, i, acc) ==
    IF i > Len(evidence_ids) THEN acc
    ELSE LET ev == Get(reg, evidence_ids[i])
         IN  FormatLoop(reg, evidence_ids, i + 1,
                 IF ev # None
                 THEN Append(acc, Join(CiteParts(ev[1]), <<",", " ">>))
                 ELSE acc)

\* EvidenceAwareDrafter._format_citations
FormatCitations(reg, evidence_ids) ==
    IF Len(evidence_ids) = 0 THEN <<>>
    ELSE <<"(">> \o Join(FormatLoop(reg, evidence_ids, 1, <<>>), <<";", " ">>)
         \o <<")">>

\* draft_paragraph without the empty-list check
DraftParagraphNoEmptyCheck(content, evidence_ids, require_citation) ==
    LET call == [NoRet EXCEPT !.op = "draft_paragraph", !.content = content,
                              !.ids = evidence_ids, !.require = require_citation]
        valid == ValidateCitations(evidence, evidence_ids)
    IN  IF require_citation /\ ~valid[1]
        THEN /\ ret' = [call EXCEPT !.raised = TRUE, !.error = "UnknownEvidence",
                                    !.missing = valid[2],
                                    !.preview = Prefix(content, 50)]
             /\ UNCHANGED <<evidence, citations, profiles, performance_log,
                            model_profiles, fallback_chains, frame>>
        ELSE /\ Len(citations) < MaxCitations
             /\ citations' = Append(citations,
                    [text |-> content, evidence_ids |-> evidence_ids,
                     location |-> Len(content)])
             /\ LET citation_text == FormatCitations(evidence, evidence_ids)
                IN  ret' = [call EXCEPT
                        !.suffix = citation_text,
                        !.text = content \o <<" ">> \o citation_text]
             /\ UNCHANGED <<evidence, profiles, performance_log,
                            model_profiles, fallback_chains, frame>>

\* draft_paragraph recording the Citation before it validates the ids
DraftParagraphRecordsFirst(content, evidence_ids, require_citation) ==
    LET call == [NoRet EXCEPT !.op = "draft_paragraph", !.content = content,
                              !.ids = evidence_ids, !.require = require_citation]
        valid == ValidateCitations(evidence, evidence_ids)
    IN  IF require_citation /\ Len(evidence_ids) = 0
        THEN /\ ret' = [call EXCEPT !.raised = TRUE, !.error = "MissingEvidence",
                                    !.preview = Prefix(content, 50)]
             /\ UNCHANGED <<evidence, citations, profiles, performance_log,
                            model_profiles, fallback_chains, frame>>
        ELSE /\ Len(citations) < MaxCitations
             /\ citations' = Append(citations,
                    [text |-> content, evidence_ids |-> evidence_ids,
                     location |-> Len(content)])
             /\ IF require_citation /\ ~valid[1]
                THEN ret' = [call EXCEPT !.raised = TRUE,
                                         !.error = "UnknownEvidence",
                                         !.missing = valid[2],
                                         !.preview = Prefix(content, 50)]
                ELSE LET citation_text == FormatCitations(evidence, evidence_ids)
                     IN  ret' = [call EXCEPT
                             !.suffix = citation_text,
                             !.text = content \o <<" ">> \o citation_text]
             /\ UNCHANGED <<evidence, profiles, performance_log,
                            model_profiles, fallback_chains, frame>>

\* EvidenceAwareDrafter.draft_paragraph
DraftParagraph(content, evidence_ids, require_citation) ==
    LET call == [NoRet EXCEPT !.op = "draft_paragraph", !.content = content,
                              !.ids = evidence_ids, !.require = require_citation]
        valid == ValidateCitations(evidence, evidence_ids)
    IN  IF require_citation /\ Len(evidence_ids) = 0
        THEN /\ ret' = [call EXCEPT !.raised = TRUE, !.error = "MissingEvidence",
                                    !.preview = Prefix(content, 50)]
             /\ UNCHANGED <<evidence, citations, profiles, performance_log,
                            model_profiles, fallback_chains, frame>>
        ELSE IF require_citation /\ ~valid[1]
        THEN /\ ret' = [call EXCEPT !.raised = TRUE, !.error = "UnknownEvidence",
                                    !.missing = valid[2],
                                    !.preview = Prefix(content, 50)]
             /\ UNCHANGED <<evidence, citations, profiles, performance_log,
                            model_profiles, fallback_chains, frame>>
        ELSE /\ Len(citations) < MaxCitations
             /\ citations' = Append(citations,
                    [text |-> content, evidence_ids |-> evidence_ids,
                     location |-> Len(content)])
             /\ LET citation_text == FormatCitations(evidence, evidence_ids)
                IN  ret' = [call EXCEPT
                        !.suffix = citation_text,
                        !.text = content \o <<" ">> \o citation_text]
             /\ UNCHANGED <<evidence, profiles, performance_log,
                            model_profiles, fallback_chains, frame>>

\* draft_paragraph taken one registry access at a time, so that register
\* calls of another execution context fall between its steps.  The frame
\* holds the arguments, the position pc, the loop index i, the missing list
\* of validate_citations and the citations list of _format_citations.

\* entry of draft_paragraph
CallDraft(content, evidence_ids, require_citation) ==
    /\ frame = None
    /\ Len(citations) < MaxCitations
    /\ frame' = Some([op |-> "draft_paragraph", pc |-> "check",
                      content |-> content, evidence_ids |-> evidence_ids,
                      require_citation |-> require_citation,
                      i |-> 1, missing |-> <<>>, cites |-> <<>>,
                      citation_text |-> <<>>])
    /\ UNCHANGED <<evidence, citations, profiles, performance_log,
                   model_profiles, fallback_chains, ret>>

\* the next step of the draft_paragraph call in progress
DraftStep ==
    /\ frame # None
    /\ frame[1].op = "draft_paragraph"
    /\ LET f == frame[1]
           n == Len(f.evidence_ids)
           call == [NoRet EXCEPT !.op = "draft_paragraph",
                                 !.content = f.content,
                                 !.ids = f.evidence_ids,
                                 !.require = f.require_citation]
           goes(g) == /\ frame' = Some(g)
                      /\ UNCHANGED <<citations, ret>>
           raises(r) == /\ frame' = None
                        /\ ret' = r
                        /\ UNCHANGED citations
       IN  CASE f.pc = "check" ->
                  IF f.require_citation /\ n = 0
                  THEN raises([call EXCEPT !.raised = TRUE,
                                           !.error = "MissingEvidence",
                                           !.preview = Prefix(f.content, 50)])
                  ELSE IF f.require_citation
                  THEN goes([f EXCEPT !.pc = "validate"])
                  ELSE goes([f EXCEPT !.pc = "format"])
             [] f.pc = "validate" ->
                  IF f.i <= n
                  THEN goes([f EXCEPT
                           !.i = f.i + 1,
                           !.missing = IF f.evidence_ids[f.i] \notin DOMAIN evidence
                                       THEN Append(f.missing, f.evidence_ids[f.i])
                                       ELSE f.missing])
                  ELSE IF Len(f.missing) # 0
                  THEN raises([call EXCEPT !.raised = TRUE,
                                           !.error = "UnknownEvidence",
                                           !.missing = f.missing,
                                           !.preview = Prefix(f.content, 50)])
                  ELSE goes([f EXCEPT !.pc = "format", !.i = 1])
             [] f.pc = "format" ->
                  IF n = 0
                  THEN goes([f EXCEPT !.pc = "record", !.citation_text = <<>>])
                  ELSE IF f.i <= n
                  THEN LET ev == Get(evidence, f.evidence_ids[f.i])
                       IN  goes([f EXCEPT
                                !.i = f.i + 1,
                                !.cites = IF ev # None
                                          THEN Append(f.cites,
                                                   Join(CiteParts(ev[1]),
                                                        <<",", " ">>))
                                          ELSE f.cites])
                  ELSE goes([f EXCEPT
                           !.pc = "record",
                           !.citation_text = <<"(">> \o Join(f.cites, <<";", " ">>)
                                                   \o <<")">>])
             [] f.pc = "record" ->
                  /\ citations' = Append(citations,
                         [text |-> f.content, evidence_ids |-> f.evidence_ids,
                          location |-> Len(f.content)])
                  /\ frame' = None
                  /\ ret' = [call EXCEPT
                         !.suffix = f.citation_text,
                         !.text = f.content \o <<" ">> \o f.citation_text]
    /\ UNCHANGED <<evidence, profiles, performance_log, model_profiles,
                   fallback_chains>>

\* Citation-proximity window of validate_document, in characters
NearbyChars == 200

Abs(n) == IF n < 0 THEN 0 - n ELSE n

\* regular-expression character classes \d, \w, \s
IsDigit(c) == c \in {"0", "1", "2", "3", "4", "5", "6", "7", "8", "9"}
IsWord(c) == c = "_" \/ (c \in {Printable[i] : i \in 1..Len(Printable)} /\
                 LET o == Ord(c) IN \/ (48 <= o /\ o <= 57)
                                    \/ (65 <= o /\ o <= 90)
                                    \/ (97 <= o /\ o <= 122))
IsSpace(c) == c \in {" ", "\n", "\t"}
IsDigitOrComma(c) == IsDigit(c) \/ c = ","

\* membership of a character in the class written \d, \w, \s or [\d,]
InClass(cls, c) ==
    CASE cls = "\\d"    -> IsDigit(c)
      [] cls = "\\w"    -> IsWord(c)
      [] cls = "\\s"    -> IsSpace(c)
      [] cls = "[\\d,]" -> IsDigitOrComma(c)

\* whether the literal lit stands in doc at index i (1-based)
HasAt(doc, i, lit) ==
    /\ i + Len(lit) - 1 <= Len(doc)
    /\ \A k \in 1..Len(lit) : doc[i + k - 1] = lit[k]

\* a greedy run X+ from index i: the index just after the longest run of
\* characters of the class (i itself when the run is empty)
RunEnd(doc, i, cls) ==
    CHOOSE j \in i..(Len(doc) + 1) :
        /\ j = Len(doc) + 1 \/ ~InClass(cls, doc[j])
        /\ \A k \in i..(j - 1) : InClass(cls, doc[k])

\* an alternation (?:a|b|c) of literals at index i, tried in order: the index
\* just after the first alternative that stands there, 0 if none does
RECURSIVE AltEnd(_, _, _)
AltEnd(doc, i, alts) ==
    IF Len(alts) = 0 THEN 0
    ELSE IF HasAt(doc, i, Head(alts)) THEN i + Len(Head(alts))
    ELSE AltEnd(doc, i, Tail(alts))

\* r'Respondent \w+ (?:did|failed to|refused to)' at index i: the index just
\* after the match, 0 if there is none
MatchRespondent(doc, i) ==
    IF ~HasAt(doc, i, <<"R", "e", "s", "p", "o", "n", "d", "e", "n", "t", " ">>) THEN 0
    ELSE LET a == i + 11
             b == RunEnd(doc, a, "\\w")
         IN  IF b = a \/ ~HasAt(doc, b, <<" ">>) THEN 0
             ELSE AltEnd(doc, b + 1,
                      << <<"d", "i", "d">>,
                         <<"f", "a", "i", "l", "e", "d", " ", "t", "o">>,
                         <<"r", "e", "f", "u", "s", "e", "d", " ", "t", "o">> >>)

\* r'On \w+\s+\d+,\s+\d{4}' at index i
MatchDate(doc, i) ==
    IF ~HasAt(doc, i, <<"O", "n", " ">>) THEN 0
    ELSE LET a == i + 3
             b == RunEnd(doc, a, "\\w")
             c == RunEnd(doc, b, "\\s")
             d == RunEnd(doc, c, "\\d")
             e == RunEnd(doc, d + 1, "\\s")
         IN  IF b = a \/ c = b \/ d = c THEN 0
             ELSE IF ~HasAt(doc, d, <<",">>) \/ e = d + 1 THEN 0
             ELSE IF e + 3 <= Len(doc) /\ \A k \in e..(e + 3) : IsDigit(doc[k])
                  THEN e + 4
                  ELSE 0

\* r'\$[\d,]+' at index i
MatchMoney(doc, i) ==
    IF ~HasAt(doc, i, <<"$">>) THEN 0
    ELSE LET b == RunEnd(doc, i + 1, "[\\d,]")
         IN  IF b = i + 1 THEN 0 ELSE b

\* r'\d+ (?:times|instances|occasions)' at index i
MatchQuantified(doc, i) ==
    IF i > Len(doc) \/ ~IsDigit(doc[i]) THEN 0
    ELSE LET b == RunEnd(doc, i, "\\d")
         IN  IF ~HasAt(doc, b, <<" ">>) THEN 0
             ELSE AltEnd(doc, b + 1,
                      << <<"t", "i", "m", "e", "s">>,
                         <<"i", "n", "s", "t", "a", "n", "c", "e", "s">>,
                         <<"o", "c", "c", "a", "s", "i", "o", "n", "s">> >>)

\* claim_patterns, in list order
ClaimPatterns == <<"respondent", "date", "money", "quantified">>

MatchAt(pattern, doc, i) ==
    CASE pattern = "respondent" -> MatchRespondent(doc, i)
      [] pattern = "date"       -> MatchDate(doc, i)
      [] pattern = "money"      -> MatchMoney(doc, i)
      [] pattern = "quantified" -> MatchQuantified(doc, i)

\* the scan of re.finditer from index pos on, given the set of indexes at
\* which the pattern matches: the leftmost match at or after pos, then the
\* scan resumes just after it (matches do not overlap)
RECURSIVE ScanFrom(_, _, _, _)
ScanFrom(pattern, doc, starts, pos) ==
    LET ahead == {i \in starts : i >= pos}
    IN  IF ahead = {} THEN <<>>
        ELSE LET i == CHOOSE s \in ahead : \A t \in ahead : s <= t
                 e == MatchAt(pattern, doc, i)
             IN  << [start |-> i - 1, group |-> SubSeq(doc, i, e - 1)] >>
                 \o ScanFrom(pattern, doc, starts, e)

\* re.finditer(pattern, document): the matches, leftmost first, each with
\* match.start() (0-based) and match.group()
FindIter(pattern, doc) ==
    ScanFrom(pattern, doc,
             {i \in 1..Len(doc) : MatchAt(pattern, doc, i) > 0}, 1)

\* has_nearby_citation with the window closed at its ends
HasNearbyCitationInclusive(cits, pos) ==
    \E k \in 1..Len(cits) : Abs(cits[k].location - pos) <= NearbyChars

\* has_nearby_citation of validate_document
HasNearbyCitation(cits, pos) ==
    \E k \in 1..Len(cits) : Abs(cits[k].location - pos) < NearbyChars

\* the uncited_claims that one pattern contributes
UncitedOf(cits, pattern, doc) ==
    LET ms == SelectSeq(FindIter(pattern, doc),
                        LAMBDA m : ~HasNearbyCitation(cits, m.start))
    IN  [k \in 1..Len(ms) |-> ms[k].group]

\* the outer loop of validate_document over claim_patterns from index p on
RECURSIVE UncitedClaims(_, _, _)
UncitedClaims(cits, doc, p) ==
    IF p > Len(ClaimPatterns) THEN <<>>
    ELSE UncitedOf(cits, ClaimPatterns[p], doc) \o UncitedClaims(cits, doc, p + 1)

\* EvidenceAwareDrafter.validate_document
ValidateDocument(document) ==
    LET uncited_claims == UncitedClaims(citations, document, 1)
    IN  /\ ret' = [NoRet EXCEPT !.op = "validate_document",
                                !.content = document,
                                !.flag = (Len(uncited_claims) = 0),
                                !.items = uncited_claims]
        /\ UNCHANGED <<evidence, citations, profiles, performance_log,
                       model_profiles, fallback_chains, frame>>

\* the evidence ids of all citations, in the order the nested loops of
\* generate_exhibit_list visit them
RECURSIVE CitedIds(_)
CitedIds(cits) ==
    IF Len(cits) = 0 THEN <<>>
    ELSE Head(cits).evidence_ids \o CitedIds(Tail(cits))

\* the exhibits loop testing the label against None only, so that an empty
\* label is kept
RECURSIVE ExhibitsLoopNotNone(_, _, _, _)
ExhibitsLoopNotNone(reg, ids, i, exhibits) ==
    IF i > Len(ids) THEN exhibits
    ELSE LET ev == Get(reg, ids[i])
         IN  ExhibitsLoopNotNone(reg, ids, i + 1,
                 IF ev # None /\ ev[1].exhibit_number # None
                 THEN LET label == ev[1].exhibit_number[1]
                      IN  [k \in DOMAIN exhibits \cup {label} |->
                              IF k = label THEN ev[1] ELSE exhibits[k]]
                 ELSE exhibits)

\* the exhibits dict of generate_exhibit_list after visiting ids[i..]
RECURSIVE ExhibitsLoop(_, _, _, _)
ExhibitsLoop(reg, ids, i, exhibits) ==
    IF i > Len(ids) THEN exhibits
    ELSE LET ev == Get(reg, ids[i])
         IN  ExhibitsLoop(reg, ids, i + 1,
                 IF ev # None /\ Truthy(ev[1].exhibit_number)
                 THEN LET label == ev[1].exhibit_number[1]
                      IN  [k \in DOMAIN exhibits \cup {label} |->
                              IF k = label THEN ev[1] ELSE exhibits[k]]
                 ELSE exhibits)

\* sorted(keys) for a set of str
RECURSIVE Sorted(_)
Sorted(keys) ==
    IF keys = {} THEN <<>>
    ELSE LET least == CHOOSE k \in keys : \A o \in keys : o = k \/ StrLess(k, o)
         IN  <<least>> \o Sorted(keys \ {least})

ExhibitHeader ==
    <<"\\", "s", "e", "c", "t", "i", "o", "n", "*", "{", "E", "x", "h",
      "i", "b", "i", "t", "s", "}", "\n", "\\", "b", "e", "g", "i", "n",
      "{", "e", "n", "u", "m", "e", "r", "a", "t", "e", "}">>

ExhibitFooter ==
    <<"\\", "e", "n", "d", "{", "e", "n", "u", "m", "e", "r", "a", "t",
      "e", "}">>

ExhibitItem ==
    <<" ", " ", "\\", "i", "t", "e", "m", " ", "E", "x", "h", "i", "b",
      "i", "t", " ">>

\* what generate_exhibit_list returns for a citation list and a registry
ExhibitList(cits, reg) ==
    LET exhibits == ExhibitsLoop(reg, CitedIds(cits), 1, << >>)
        keys == Sorted(DOMAIN exhibits)
        lines == [k \in 1..Len(keys) |->
                     ExhibitItem \o keys[k] \o <<":", " ">>
                     \o exhibits[keys[k]].description]
    IN  Join(<<ExhibitHeader>> \o lines \o <<ExhibitFooter>>, <<"\n">>)

\* EvidenceAwareDrafter.generate_exhibit_list
GenerateExhibitList ==
    /\ ret' = [NoRet EXCEPT !.op = "generate_exhibit_list",
                            !.text = ExhibitList(citations, evidence)]
    /\ UNCHANGED <<evidence, citations, profiles, performance_log,
                   model_profiles, fallback_chains, frame>>

---------------------------------------------------------------------------
(* JurisdictionRegistry.  A CourtProfile keeps the fields an operation     *)
(* reads or a property names; court_name, jurisdiction, the margins, the   *)
(* page-number location and the CitationRules are read by no operation.    *)

TimesNewRoman == <<"T", "i", "m", "e", "s", " ", "N", "e", "w", " ", "R", "o", "m", "a",
      "n">>
CenturySchoolbook == <<"C", "e", "n", "t", "u", "r", "y", " ", "S", "c", "h", "o", "o", "l",
      "b", "o", "o", "k">>

\* the three profiles of _load_default_profiles
HawaiiFamily ==
    [court_id |-> "hi_family", court_level |-> "state_family",
     formatting |-> [font_family |-> TimesNewRoman, font_size |-> 12,
                     line_spacing |-> 20],
     filing |-> [max_pages |-> None,
                 certificate_of_service_required |-> TRUE,
                 verification_required |-> TRUE,
                 exhibits_must_be_labeled |-> TRUE,
                 table_of_contents_required_pages |-> Some(25),
                 table_of_authorities_required |-> FALSE],
     special_rules |-> [caption_format |-> PyStr("hawaii_standard"),
                        signature_block_required |-> PyBool(TRUE),
                        pro_se_notice_required |-> PyBool(TRUE)]]

NorthernCalifornia ==
    [court_id |-> "cand", court_level |-> "federal_district",
     formatting |-> [font_family |-> TimesNewRoman, font_size |-> 12,
                     line_spacing |-> 20],
     filing |-> [max_pages |-> Some(25),
                 certificate_of_service_required |-> TRUE,
                 verification_required |-> FALSE,
                 exhibits_must_be_labeled |-> TRUE,
                 table_of_contents_required_pages |-> Some(25),
                 table_of_authorities_required |-> TRUE],
     special_rules |-> [ecf_filing_required |-> PyBool(TRUE),
                        local_rules_apply |-> PyStr("CAND Local Rules"),
                        civil_lr_compliance |-> PyBool(TRUE)]]

NinthCircuit ==
    [court_id |-> "ca9", court_level |-> "federal_circuit",
     formatting |-> [font_family |-> CenturySchoolbook, font_size |-> 14,
                     line_spacing |-> 20],
     filing |-> [max_pages |-> Some(14000),
                 certificate_of_service_required |-> TRUE,
                 verification_required |-> FALSE,
                 exhibits_must_be_labeled |-> TRUE,
                 table_of_contents_required_pages |-> Some(1),
                 table_of_authorities_required |-> TRUE],
     special_rules |-> [word_count_limit |-> PyInt(14000),
                        certificate_of_compliance_required |-> PyBool(TRUE),
                        separate_volume_for_excerpts |-> PyBool(TRUE)]]

\* the registry after JurisdictionRegistry.__init__
DefaultProfiles ==
    [c \in {"hi_family", "cand", "ca9"} |->
        CASE c = "hi_family" -> HawaiiFamily
          [] c = "cand"      -> NorthernCalifornia
          [] c = "ca9"       -> NinthCircuit]

\* register_profile that rebuilds the table around the new profile
RegisterProfileAlone(profile) ==
    /\ profiles' = [k \in {profile.court_id} |-> profile]
    /\ ret' = [NoRet EXCEPT !.op = "register_profile"]
    /\ UNCHANGED <<evidence, citations, performance_log,
                   model_profiles, fallback_chains, frame>>

\* JurisdictionRegistry.register_profile
RegisterProfile(profile) ==
    /\ profiles' = [k \in DOMAIN profiles \cup {profile.court_id} |->
                       IF k = profile.court_id THEN profile ELSE profiles[k]]
    /\ ret' = [NoRet EXCEPT !.op = "register_profile"]
    /\ UNCHANGED <<evidence, citations, performance_log,
                   model_profiles, fallback_chains, frame>>

\* JurisdictionRegistry.get_profile
GetProfile(reg, court_id) ==
    IF court_id \in DOMAIN reg THEN Some(reg[court_id]) ELSE None

---------------------------------------------------------------------------
(* ComplianceValidator *)

\* a violation message: its fixed text and the value formatted into it
Violation(msg, arg) == [msg |-> msg, arg |-> arg]

\* _check_formatting looking for the font under another directive name
CheckFormattingOtherDirective(content, rules) ==
    (IF /\ Len(rules.font_family) > 0
        /\ ~Contains(content, <<"\\", "f", "o", "n", "t", "f", "a", "m", "i", "l", "y", "{">>
                              \o rules.font_family \o <<"}">>)
     THEN <<Violation("Required font '{}' not specified", rules.font_family)>>
     ELSE <<>>)
    \o
    (IF /\ rules.line_spacing # 0
        /\ ~Contains(content, <<"\\">> \o FloatToStr(rules.line_spacing))
     THEN <<Violation("Required line spacing {} not set",
                      FloatToStr(rules.line_spacing))>>
     ELSE <<>>)

\* ComplianceValidator._check_formatting
CheckFormatting(content, rules) ==
    (IF /\ Len(rules.font_family) > 0
        /\ ~Contains(content, <<"\\", "s", "e", "t", "m", "a", "i", "n", "f", "o", "n", "t", "{">>
                              \o rules.font_family \o <<"}">>)
     THEN <<Violation("Required font '{}' not specified", rules.font_family)>>
     ELSE <<>>)
    \o
    (IF /\ rules.line_spacing # 0
        /\ ~Contains(content, <<"\\">> \o FloatToStr(rules.line_spacing))
     THEN <<Violation("Required line spacing {} not set",
                      FloatToStr(rules.line_spacing))>>
     ELSE <<>>)

\* _check_filing_rules with elif after the first test: the first missing
\* item only
CheckFilingRulesFirstOnly(content, rules) ==
    IF rules.certificate_of_service_required
       /\ ~Contains(Lower(content), <<"c", "e", "r", "t", "i", "f", "i", "c", "a", "t", "e", " ", "o", "f",
      " ", "s", "e", "r", "v", "i", "c", "e">>)
    THEN <<Violation("Certificate of Service required but not found", <<>>)>>
    ELSE IF rules.verification_required
            /\ ~Contains(Lower(content), <<"v", "e", "r", "i", "f", "i", "c", "a", "t", "i", "o", "n">>)
    THEN <<Violation("Verification required but not found", <<>>)>>
    ELSE IF rules.table_of_authorities_required
            /\ ~Contains(Lower(content), <<"t", "a", "b", "l", "e", " ", "o", "f", " ", "a", "u", "t", "h", "o",
      "r", "i", "t", "i", "e", "s">>)
    THEN <<Violation("Table of Authorities required but not found", <<>>)>>
    ELSE <<>>

\* _check_filing_rules without lower(): the keywords are looked for as
\* written, in lower case
CheckFilingRulesCaseSensitive(content, rules) ==
    (IF rules.certificate_of_service_required
        /\ ~Contains(content, <<"c", "e", "r", "t", "i", "f", "i", "c", "a", "t", "e", " ", "o", "f",
      " ", "s", "e", "r", "v", "i", "c", "e">>)
     THEN <<Violation("Certificate of Service required but not found", <<>>)>>
     ELSE <<>>)
    \o
    (IF rules.verification_required
        /\ ~Contains(content, <<"v", "e", "r", "i", "f", "i", "c", "a", "t", "i", "o", "n">>)
     THEN <<Violation("Verification required but not found", <<>>)>>
     ELSE <<>>)
    \o
    (IF rules.table_of_authorities_required
        /\ ~Contains(content, <<"t", "a", "b", "l", "e", " ", "o", "f", " ", "a", "u", "t", "h", "o",
      "r", "i", "t", "i", "e", "s">>)
     THEN <<Violation("Table of Authorities required but not found", <<>>)>>
     ELSE <<>>)

\* ComplianceValidator._check_filing_rules
CheckFilingRules(content, rules) ==
    (IF rules.certificate_of_service_required
        /\ ~Contains(Lower(content), <<"c", "e", "r", "t", "i", "f", "i", "c", "a", "t", "e", " ", "o", "f",
      " ", "s", "e", "r", "v", "i", "c", "e">>)
     THEN <<Violation("Certificate of Service required but not found", <<>>)>>
     ELSE <<>>)
    \o
    (IF rules.verification_required
        /\ ~Contains(Lower(content), <<"v", "e", "r", "i", "f", "i", "c", "a", "t", "i", "o", "n">>)
     THEN <<Violation("Verification required but not found", <<>>)>>
     ELSE <<>>)
    \o
    (IF rules.table_of_authorities_required
        /\ ~Contains(Lower(content), <<"t", "a", "b", "l", "e", " ", "o", "f", " ", "a", "u", "t", "h", "o",
      "r", "i", "t", "i", "e", "s">>)
     THEN <<Violation("Table of Authorities required but not found", <<>>)>>
     ELSE <<>>)

\* rules.get(key) is truthy
RuleSet(rules, key) == key \in DOMAIN rules /\ PyTruthy(rules[key])

\* ComplianceValidator._check_special_rules
CheckSpecialRules(content, rules) ==
    (IF RuleSet(rules, "pro_se_notice_required")
        /\ ~Contains(Lower(content), <<"p", "r", "o", " ", "s", "e">>)
     THEN <<Violation("Pro se notice may be required for self-represented litigants",
                      <<>>)>>
     ELSE <<>>)
    \o
    (IF RuleSet(rules, "certificate_of_compliance_required")
        /\ ~Contains(Lower(content), <<"c", "e", "r", "t", "i", "f", "i", "c", "a", "t", "e", " ", "o", "f",
      " ", "c", "o", "m", "p", "l", "i", "a", "n", "c", "e">>)
     THEN <<Violation("Certificate of Compliance required but not found", <<>>)>>
     ELSE <<>>)

\* the document of test_jurisdiction_compliance
TestDocument ==
    <<"\\", "s", "e", "t", "m", "a", "i", "n", "f", "o", "n", "t", "{",
      "T", "i", "m", "e", "s", " ", "N", "e", "w", " ", "R", "o", "m", "a",
      "n", "}", "\n", "\\", "d", "o", "u", "b", "l", "e", "s", "p", "a",
      "c", "i", "n", "g", "\n", "C", "e", "r", "t", "i", "f", "i", "c",
      "a", "t", "e", " ", "o", "f", " ", "S", "e", "r", "v", "i", "c", "e",
      "\n", "V", "e", "r", "i", "f", "i", "c", "a", "t", "i", "o", "n", "\n">>

\* a document with every item hi_family asks for, in mixed case
FullDocument ==
    <<"\\", "s", "e", "t", "m", "a", "i", "n", "f", "o", "n", "t", "{",
      "T", "i", "m", "e", "s", " ", "N", "e", "w", " ", "R", "o", "m", "a",
      "n", "}", "\n", "\\", "2", ".", "0", "\n", "C", "E", "R", "T", "I",
      "F", "I", "C", "A", "T", "E", " ", "O", "F", " ", "S", "E", "R", "V",
      "I", "C", "E", "\n", "V", "e", "r", "i", "f", "i", "c", "a", "t",
      "i", "o", "n", "\n", "A", "p", "p", "e", "a", "r", "i", "n", "g",
      " ", "P", "r", "o", " ", "S", "e", "\n">>

\* the files on disk; any other path does not exist
FileSystem ==
    [f \in {"empty.tex", "test.tex", "full.tex"} |->
        CASE f = "empty.tex" -> <<>>
          [] f = "test.tex"  -> TestDocument
          [] f = "full.tex"  -> FullDocument]

Paths == DOMAIN FileSystem \cup {"missing.tex"}

\* document_path.read_text() if document_path.exists() else ""
ReadDocument(path) ==
    IF path \in DOMAIN FileSystem THEN FileSystem[path] ELSE <<>>

\* the FormattingRules() dataclass defaults
DefaultFormatting ==
    [font_family |-> TimesNewRoman, font_size |-> 12, line_spacing |-> 20]

\* what validate_document returns: <<is_compliant, violations>>
ComplianceReport(reg, path, court_id) ==
    LET profile == GetProfile(reg, court_id)
    IN  IF profile = None
        THEN <<FALSE, <<Violation("Unknown court ID: {}", <<court_id>>)>> >>
        ELSE LET content == ReadDocument(path)
                 violations ==
                     CheckFormatting(content, profile[1].formatting)
                     \o CheckFilingRules(content, profile[1].filing)
                     \o CheckSpecialRules(content, profile[1].special_rules)
             IN  <<Len(violations) = 0, violations>>

\* validate_document going on, for an unknown court, to check the document
\* against the default FormattingRules
ComplianceValidateDocumentNoReturn(path, court_id) ==
    LET profile == GetProfile(profiles, court_id)
        content == ReadDocument(path)
        report ==
            IF profile = None
            THEN <<FALSE, <<Violation("Unknown court ID: {}", <<court_id>>)>>
                          \o CheckFormatting(content, DefaultFormatting)>>
            ELSE ComplianceReport(profiles, path, court_id)
    IN  /\ ret' = [NoRet EXCEPT !.op = "compliance_validate_document",
                                !.path = path, !.court = court_id,
                                !.flag = report[1], !.items = report[2]]
        /\ UNCHANGED <<evidence, citations, profiles, performance_log,
                       model_profiles, fallback_chains, frame>>

\* ComplianceValidator.validate_document
ComplianceValidateDocument(path, court_id) ==
    LET report == ComplianceReport(profiles, path, court_id)
    IN  /\ ret' = [NoRet EXCEPT !.op = "compliance_validate_document",
                                !.path = path, !.court = court_id,
                                !.flag = report[1], !.items = report[2]]
        /\ UNCHANGED <<evidence, citations, profiles, performance_log,
                       model_profiles, fallback_chains, frame>>

\* CourtProfile values passed to register_profile: one that asks for
\* nothing but a line spacing, one that asks for everything, one whose
\* special rules are set but falsy, one replacing a default profile.
ProfilePool ==
    { [court_id |-> "bare", court_level |-> "state_district",
       formatting |-> [font_family |-> <<>>, font_size |-> 12,
                       line_spacing |-> 15],
       filing |-> [max_pages |-> None,
                   certificate_of_service_required |-> FALSE,
                   verification_required |-> FALSE,
                   exhibits_must_be_labeled |-> FALSE,
                   table_of_contents_required_pages |-> None,
                   table_of_authorities_required |-> FALSE],
       special_rules |-> << >>],
      [court_id |-> "bare", court_level |-> "state_supreme",
       formatting |-> [font_family |-> CenturySchoolbook, font_size |-> 14,
                       line_spacing |-> 20],
       filing |-> [max_pages |-> Some(30),
                   certificate_of_service_required |-> TRUE,
                   verification_required |-> TRUE,
                   exhibits_must_be_labeled |-> TRUE,
                   table_of_contents_required_pages |-> Some(25),
                   table_of_authorities_required |-> TRUE],
       special_rules |-> [pro_se_notice_required |-> PyBool(TRUE),
                          certificate_of_compliance_required |-> PyInt(1)]],
      [court_id |-> "hi_family", court_level |-> "state_family",
       formatting |-> [font_family |-> TimesNewRoman, font_size |-> 12,
                       line_spacing |-> 0],
       filing |-> [max_pages |-> None,
                   certificate_of_service_required |-> FALSE,
                   verification_required |-> TRUE,
                   exhibits_must_be_labeled |-> TRUE,
                   table_of_contents_required_pages |-> Some(25),
                   table_of_authorities_required |-> FALSE],
       special_rules |-> [pro_se_notice_required |-> PyBool(FALSE),
                          certificate_of_compliance_required |-> PyStr("")]] }

CourtIds == {"hi_family", "cand", "ca9", "bare", "nowhere"}

---------------------------------------------------------------------------
(* ModelRouter.  The float fields of a ModelProfile are held as integers:  *)
(* cost_per_1k_tokens in thousandths of a dollar, avg_latency in tenths of *)
(* a second, reliability in hundredths.  The strengths of a profile are    *)
(* read by no operation and are left out.  A quotient is kept as its two   *)
(* operands.                                                               *)

\* the values of ModelType
GPT4 == "gpt-4"
CLAUDE_3_OPUS == "claude-3-opus"
CLAUDE_3_SONNET == "claude-3-sonnet"
PERPLEXITY == "perplexity"
LOCAL_LLAMA == "local-llama"

ModelTypes == {GPT4, CLAUDE_3_OPUS, CLAUDE_3_SONNET, PERPLEXITY, LOCAL_LLAMA}

\* the values of TaskType
TaskTypes ==
    {"legal_research", "document_generation", "legal_analysis",
     "evidence_review", "citation_checking"}

\* the table ModelRouter._initialize_profiles returns
ModelProfiles ==
    [m \in ModelTypes |->
        CASE m = GPT4 ->
                 [max_context |-> 128000, cost_per_1k_tokens |-> 30,
                  avg_latency |-> 25, reliability |-> 95]
          [] m = CLAUDE_3_OPUS ->
                 [max_context |-> 200000, cost_per_1k_tokens |-> 15,
                  avg_latency |-> 30, reliability |-> 93]
          [] m = CLAUDE_3_SONNET ->
                 [max_context |-> 200000, cost_per_1k_tokens |-> 3,
                  avg_latency |-> 15, reliability |-> 90]
          [] m = PERPLEXITY ->
                 [max_context |-> 16000, cost_per_1k_tokens |-> 1,
                  avg_latency |-> 20, reliability |-> 88]
          [] m = LOCAL_LLAMA ->
                 [max_context |-> 32000, cost_per_1k_tokens |-> 0,
                  avg_latency |-> 50, reliability |-> 75]]

\* the chain table with gpt-4 moved to the end of every chain
FallbackChainsDefaultLast ==
    [t \in TaskTypes |->
        CASE t = "legal_research" -> <<PERPLEXITY, CLAUDE_3_OPUS, GPT4>>
          [] t = "document_generation" -> <<CLAUDE_3_OPUS, CLAUDE_3_SONNET, GPT4>>
          [] t = "legal_analysis" -> <<CLAUDE_3_OPUS, CLAUDE_3_SONNET, GPT4>>
          [] t = "evidence_review" -> <<CLAUDE_3_SONNET, LOCAL_LLAMA, GPT4>>
          [] t = "citation_checking" -> <<CLAUDE_3_SONNET, LOCAL_LLAMA, GPT4>>]

\* the table ModelRouter._initialize_fallbacks returns
FallbackChains ==
    [t \in TaskTypes |->
        CASE t = "legal_research" -> <<PERPLEXITY, CLAUDE_3_OPUS, GPT4>>
          [] t = "document_generation" -> <<CLAUDE_3_OPUS, GPT4, CLAUDE_3_SONNET>>
          [] t = "legal_analysis" -> <<GPT4, CLAUDE_3_OPUS, CLAUDE_3_SONNET>>
          [] t = "evidence_review" -> <<CLAUDE_3_SONNET, GPT4, LOCAL_LLAMA>>
          [] t = "citation_checking" -> <<CLAUDE_3_SONNET, LOCAL_LLAMA, GPT4>>]

\* the ValueError handler choosing legal research
ToTaskTypeResearch(task_type) ==
    IF task_type \in TaskTypes THEN task_type ELSE "legal_research"

\* TaskType(task_type) under the ValueError handler of select_model
ToTaskType(task_type) ==
    IF task_type \in TaskTypes THEN task_type ELSE "legal_analysis"

\* self.fallback_chains.get(task, [ModelType.GPT4])
ChainOf(task) ==
    IF task \in DOMAIN fallback_chains THEN fallback_chains[task] ELSE <<GPT4>>

\* the context filter keeping the models of strictly larger context only
RECURSIVE FilterContextStrict(_, _)
FilterContextStrict(candidates, size) ==
    IF candidates = <<>> THEN <<>>
    ELSE (IF model_profiles[Head(candidates)].max_context > size
          THEN <<Head(candidates)>> ELSE <<>>)
         \o FilterContextStrict(Tail(candidates), size)

\* [model for model in candidates if profiles[model].max_context >= size]
RECURSIVE FilterContext(_, _)
FilterContext(candidates, size) ==
    IF candidates = <<>> THEN <<>>
    ELSE (IF model_profiles[Head(candidates)].max_context >= size
          THEN <<Head(candidates)>> ELSE <<>>)
         \o FilterContext(Tail(candidates), size)

\* the candidates of select_model without the context filter
CandidatesOfUnfiltered(task_type, context_size) ==
    ChainOf(ToTaskType(task_type))

\* the candidates of select_model: `if context_size:` is false for None and
\* for 0
CandidatesOf(task_type, context_size) ==
    LET chain == ChainOf(ToTaskType(task_type))
    IN  IF context_size # None /\ context_size[1] # 0
        THEN FilterContext(chain, context_size[1])
        ELSE chain

\* min(candidates, key=...) from candidates[i] on: best is replaced by a
\* strictly smaller element only
RECURSIVE MinBy(_, _, _, _)
MinBy(candidates, field, i, best) ==
    IF i > Len(candidates) THEN best
    ELSE MinBy(candidates, field, i + 1,
               IF model_profiles[candidates[i]][field] < model_profiles[best][field]
               THEN candidates[i] ELSE best)

\* max(candidates, key=...) from candidates[i] on: best is replaced by a
\* strictly greater element only
RECURSIVE MaxBy(_, _, _, _)
MaxBy(candidates, field, i, best) ==
    IF i > Len(candidates) THEN best
    ELSE MaxBy(candidates, field, i + 1,
               IF model_profiles[candidates[i]][field] > model_profiles[best][field]
               THEN candidates[i] ELSE best)

\* the priority test without its "speed" branch
ByPriorityNoSpeed(candidates, priority) ==
    IF priority = "cost"
    THEN MinBy(candidates, "cost_per_1k_tokens", 2, candidates[1])
    ELSE MaxBy(candidates, "reliability", 2, candidates[1])

\* the priority test of select_model on a non-empty candidate list
ByPriority(candidates, priority) ==
    IF priority = "cost"
    THEN MinBy(candidates, "cost_per_1k_tokens", 2, candidates[1])
    ELSE IF priority = "speed"
    THEN MinBy(candidates, "avg_latency", 2, candidates[1])
    ELSE MaxBy(candidates, "reliability", 2, candidates[1])

\* the value select_model returns
SelectedModel(task_type, context_size, priority) ==
    LET candidates == CandidatesOf(task_type, context_size)
    IN  IF candidates = <<>> THEN GPT4
        ELSE ByPriority(candidates, priority)

\* ModelRouter.select_model; ret.candidates is the candidate list at the
\* priority test
SelectModel(task_type, context_size, priority) ==
    /\ ret' = [NoRet EXCEPT !.op = "select_model",
                            !.task = task_type,
                            !.context = context_size,
                            !.priority = priority,
                            !.candidates = CandidatesOf(task_type, context_size),
                            !.model = Some(SelectedModel(task_type, context_size,
                                                         priority))]
    /\ UNCHANGED <<evidence, citations, profiles, performance_log,
                   model_profiles, fallback_chains, frame>>

\* the TaskResult of one attempt: outcome o of task_fn on model_type, which
\* returned o.value or raised an Exception whose str() is o.value
TaskResult(model_type, o) ==
    IF o.raises
    THEN [success |-> FALSE, output |-> None, model_used |-> model_type,
          execution_time |-> o.time, tokens_used |-> 0, error |-> Some(o.value)]
    ELSE [success |-> TRUE, output |-> Some(o.value), model_used |-> model_type,
          execution_time |-> o.time, tokens_used |-> 0, error |-> None]

\* the for loop going on to the next model after a success
RECURSIVE AttemptsKeepsGoing(_, _, _)
AttemptsKeepsGoing(fallback_chain, outcomes, i) ==
    IF i > Len(fallback_chain) THEN [appended |-> <<>>, returned |-> None]
    ELSE LET model_type == fallback_chain[i]
             result == TaskResult(model_type, outcomes[i])
             rest == AttemptsKeepsGoing(fallback_chain, outcomes, i + 1)
         IN  [appended |-> <<result>> \o rest.appended,
              returned |-> IF rest.returned # None THEN rest.returned
                           ELSE Some(result)]

\* the for loop without the test for the last model of the chain
RECURSIVE AttemptsNoLastTest(_, _, _)
AttemptsNoLastTest(fallback_chain, outcomes, i) ==
    IF i > Len(fallback_chain) THEN [appended |-> <<>>, returned |-> None]
    ELSE LET model_type == fallback_chain[i]
             result == TaskResult(model_type, outcomes[i])
         IN  IF ~outcomes[i].raises
             THEN [appended |-> <<result>>, returned |-> Some(result)]
             ELSE LET rest == AttemptsNoLastTest(fallback_chain, outcomes, i + 1)
                  IN  [appended |-> <<result>> \o rest.appended,
                       returned |-> rest.returned]

\* the for loop testing for the last model before it logs the failure
RECURSIVE AttemptsReturnsUnlogged(_, _, _)
AttemptsReturnsUnlogged(fallback_chain, outcomes, i) ==
    IF i > Len(fallback_chain) THEN [appended |-> <<>>, returned |-> None]
    ELSE LET model_type == fallback_chain[i]
             result == TaskResult(model_type, outcomes[i])
         IN  IF ~outcomes[i].raises
             THEN [appended |-> <<result>>, returned |-> Some(result)]
             ELSE IF model_type = fallback_chain[Len(fallback_chain)]
             THEN [appended |-> <<>>, returned |-> Some(result)]
             ELSE LET rest == AttemptsReturnsUnlogged(fallback_chain, outcomes,
                                                      i + 1)
                  IN  [appended |-> <<result>> \o rest.appended,
                       returned |-> rest.returned]

\* the for loop of execute_with_fallback from fallback_chain[i] on: the
\* results it appends to the log and the result it returns, None when the
\* loop ends without returning
RECURSIVE Attempts(_, _, _)
Attempts(fallback_chain, outcomes, i) ==
    IF i > Len(fallback_chain) THEN [appended |-> <<>>, returned |-> None]
    ELSE LET model_type == fallback_chain[i]
             result == TaskResult(model_type, outcomes[i])
         IN  IF ~outcomes[i].raises
             THEN [appended |-> <<result>>, returned |-> Some(result)]
             ELSE IF model_type = fallback_chain[Len(fallback_chain)]
             THEN [appended |-> <<result>>, returned |-> Some(result)]
             ELSE LET rest == Attempts(fallback_chain, outcomes, i + 1)
                  IN  [appended |-> <<result>> \o rest.appended,
                       returned |-> rest.returned]

\* the result built after the loop of execute_with_fallback
NoModelsAvailable(fallback_chain) ==
    [success |-> FALSE, output |-> None, model_used |-> fallback_chain[1],
     execution_time |-> 0, tokens_used |-> 0,
     error |-> Some("No models available")]

\* execute_with_fallback appending the result it returns and no other
ExecuteWithFallbackLogsReturned(task_type, outcomes) ==
    LET fallback_chain == ChainOf(task_type)
        run == Attempts(fallback_chain, outcomes, 1)
    IN  /\ Len(performance_log) + Len(run.appended) <= MaxLog
        /\ performance_log' = Append(performance_log, run.returned[1])
        /\ ret' = [NoRet EXCEPT !.op = "execute_with_fallback",
                                !.task = task_type,
                                !.outcomes = outcomes,
                                !.result = run.returned]
        /\ UNCHANGED <<evidence, citations, profiles, model_profiles, fallback_chains, frame>>

\* execute_with_fallback taking the models it tries out of the chain table
ExecuteWithFallbackConsumesChain(task_type, outcomes) ==
    LET fallback_chain == ChainOf(task_type)
        run == Attempts(fallback_chain, outcomes, 1)
    IN  /\ Len(performance_log) + Len(run.appended) <= MaxLog
        /\ performance_log' = performance_log \o run.appended
        /\ fallback_chains' =
               [t \in DOMAIN fallback_chains |->
                   IF t = task_type
                   THEN SubSeq(fallback_chain, Len(run.appended) + 1,
                               Len(fallback_chain))
                   ELSE fallback_chains[t]]
        /\ ret' = [NoRet EXCEPT !.op = "execute_with_fallback",
                                !.task = task_type,
                                !.outcomes = outcomes,
                                !.result = run.returned]
        /\ UNCHANGED <<evidence, citations, profiles, model_profiles, frame>>

\* ModelRouter.execute_with_fallback; outcomes[i] is what task_fn does when
\* it is called on the i-th model of the chain
ExecuteWithFallback(task_type, outcomes) ==
    LET fallback_chain == ChainOf(task_type)
        run == Attempts(fallback_chain, outcomes, 1)
    IN  /\ Len(performance_log) + Len(run.appended) <= MaxLog
        /\ performance_log' = performance_log \o run.appended
        /\ ret' = [NoRet EXCEPT !.op = "execute_with_fallback",
                                !.task = task_type,
                                !.outcomes = outcomes,
                                !.result = IF run.returned # None
                                           THEN run.returned
                                           ELSE Some(NoModelsAvailable(fallback_chain))]
        /\ UNCHANGED <<evidence, citations, profiles, model_profiles, fallback_chains, frame>>

\* execute_with_fallback taken one loop iteration at a time.  The frame
\* holds the chain, the behaviour of task_fn on each of its models, the
\* index i of the model the loop is at, and the number of task_fn calls
\* made so far.

\* entry of execute_with_fallback: the chain is read
CallExecute(task_type, outcomes) ==
    LET fallback_chain == ChainOf(task_type)
    IN  /\ frame = None
        /\ Len(performance_log) + Len(fallback_chain) <= MaxLog
        /\ frame' = Some([op |-> "execute_with_fallback",
                          task_type |-> task_type,
                          fallback_chain |-> fallback_chain,
                          outcomes |-> outcomes, i |-> 1, calls |-> 0])
        /\ UNCHANGED <<evidence, citations, profiles, performance_log,
                       model_profiles, fallback_chains, ret>>

\* one iteration that tries the same model again after a failure
AttemptStepRetries ==
    /\ frame # None
    /\ frame[1].op = "execute_with_fallback"
    /\ Len(performance_log) < MaxLog
    /\ LET f == frame[1]
           model_type == f.fallback_chain[f.i]
           result == TaskResult(model_type, f.outcomes[f.i])
       IN  /\ performance_log' = Append(performance_log, result)
           /\ IF ~f.outcomes[f.i].raises
              THEN /\ frame' = None
                   /\ ret' = [NoRet EXCEPT !.op = "execute_with_fallback",
                                           !.task = f.task_type,
                                           !.outcomes = f.outcomes,
                                           !.result = Some(result)]
              ELSE /\ frame' = Some([f EXCEPT !.calls = f.calls + 1])
                   /\ UNCHANGED ret
    /\ UNCHANGED <<evidence, citations, profiles, model_profiles,
                   fallback_chains>>

\* one iteration of the for loop of execute_with_fallback, or, when the
\* chain is used up, the return after the loop
AttemptStep ==
    /\ frame # None
    /\ frame[1].op = "execute_with_fallback"
    /\ LET f == frame[1]
           returns(result) ==
               [NoRet EXCEPT !.op = "execute_with_fallback",
                             !.task = f.task_type,
                             !.outcomes = f.outcomes,
                             !.result = Some(result)]
       IN  IF f.i > Len(f.fallback_chain)
           THEN /\ frame' = None
                /\ ret' = returns(NoModelsAvailable(f.fallback_chain))
                /\ UNCHANGED performance_log
           ELSE LET model_type == f.fallback_chain[f.i]
                    result == TaskResult(model_type, f.outcomes[f.i])
                IN  /\ performance_log' = Append(performance_log, result)
                    /\ IF \/ ~f.outcomes[f.i].raises
                          \/ model_type = f.fallback_chain[Len(f.fallback_chain)]
                       THEN /\ frame' = None
                            /\ ret' = returns(result)
                       ELSE /\ frame' = Some([f EXCEPT !.i = f.i + 1,
                                                      !.calls = f.calls + 1])
                            /\ UNCHANGED ret
    /\ UNCHANGED <<evidence, citations, profiles, model_profiles,
                   fallback_chains>>

\* sum(1 for r in log if r.success)
RECURSIVE Successful(_)
Successful(log) ==
    IF log = <<>> THEN 0
    ELSE (IF Head(log).success THEN 1 ELSE 0) + Successful(Tail(log))

\* sum(r.execution_time for r in log)
RECURSIVE TotalTime(_)
TotalTime(log) ==
    IF log = <<>> THEN 0 ELSE Head(log).execution_time + TotalTime(Tail(log))

\* the model_usage loop of get_performance_stats from log[i] on
RECURSIVE ModelUsage(_, _, _)
ModelUsage(log, i, model_usage) ==
    IF i > Len(log) THEN model_usage
    ELSE LET model == log[i].model_used
             count == IF model \in DOMAIN model_usage THEN model_usage[model]
                      ELSE 0
         IN  ModelUsage(log, i + 1,
                 [k \in DOMAIN model_usage \cup {model} |->
                     IF k = model THEN count + 1 ELSE model_usage[k]])

\* the dict built by get_performance_stats, or the ZeroDivisionError of its
\* first quotient
StatsOf(log) ==
    LET total_tasks == Len(log)
    IN  IF total_tasks = 0
        THEN [NoRet EXCEPT !.op = "get_performance_stats", !.raised = TRUE,
                           !.error = "ZeroDivisionError"]
        ELSE [NoRet EXCEPT !.op = "get_performance_stats",
                 !.stats = Some([total_tasks |-> total_tasks,
                                 success_rate |-> [num |-> Successful(log),
                                                   den |-> total_tasks],
                                 model_usage |-> ModelUsage(log, 1, << >>),
                                 avg_execution_time |-> [num |-> TotalTime(log),
                                                         den |-> total_tasks]])]

\* get_performance_stats without the test for an empty log
GetPerformanceStatsNoEmptyTest ==
    /\ ret' = StatsOf(performance_log)
    /\ UNCHANGED <<evidence, citations, profiles, performance_log,
                   model_profiles, fallback_chains, frame>>

\* ModelRouter.get_performance_stats; {} is the empty function
GetPerformanceStats ==
    /\ ret' = IF performance_log = <<>>
              THEN [NoRet EXCEPT !.op = "get_performance_stats",
                                 !.stats = Some(<< >>)]
              ELSE StatsOf(performance_log)
    /\ UNCHANGED <<evidence, citations, profiles, performance_log,
                   model_profiles, fallback_chains, frame>>

\* arguments of select_model
TaskInputs == TaskTypes \cup {"", "Legal_Research", "translation"}

ContextSizes ==
    {None, Some(0), Some(16000), Some(16001), Some(32000), Some(128000),
     Some(128001), Some(200000), Some(200001)}

Priorities == {"cost", "speed", "quality", "balanced"}

\* what task_fn may do on one model
TaskOutcomes ==
    { [raises |-> FALSE, value |-> "answer", time |-> 1],
      [raises |-> TRUE, value |-> "timeout", time |-> 3],
      [raises |-> TRUE, value |-> "refused", time |-> 0] }

\* arguments of execute_with_fallback: the members of TaskType and a value
\* that is no key of fallback_chains
ExecuteTasks == TaskTypes \cup {"no_task_type"}

---------------------------------------------------------------------------
(* Specification of the drafter *)

Init ==
    /\ evidence = << >>
    /\ citations = << >>
    /\ profiles = DefaultProfiles
    /\ performance_log = << >>
    /\ model_profiles = ModelProfiles
    /\ fallback_chains = FallbackChains
    /\ frame = None
    /\ ret = NoRet

DoRegister == \E e \in EvidencePool : Register(e)

DoDraft ==
    \E content \in Contents, ids \in IdLists, req \in BOOLEAN :
        DraftParagraph(content, ids, req)

DoValidateDocument ==
    \E document \in ShortDocuments : ValidateDocument(document)

Next ==
    \/ DoRegister
    \/ DoDraft
    \/ DoValidateDocument
    \/ GenerateExhibitList

Spec == Init /\ [][Next]_vars

---------------------------------------------------------------------------
(* Specification of the uncited-claim scan: paragraphs of several lengths  *)
(* are recorded, then assembled documents are scanned.                     *)

DoDraftScan ==
    \E content \in ScanContents, req \in BOOLEAN :
        DraftParagraph(content, <<>>, req)

DoScanDocument == \E document \in Documents : ValidateDocument(document)

NextScan ==
    \/ DoDraftScan
    \/ DoScanDocument

SpecScan == Init /\ [][NextScan]_vars

---------------------------------------------------------------------------
(* Specification of the jurisdiction registry and the compliance validator *)

DoRegisterProfile == \E profile \in ProfilePool : RegisterProfile(profile)

DoComplianceValidate ==
    \E path \in Paths, court_id \in CourtIds :
        ComplianceValidateDocument(path, court_id)

NextCompliance ==
    \/ DoRegisterProfile
    \/ DoComplianceValidate

SpecCompliance == Init /\ [][NextCompliance]_vars

---------------------------------------------------------------------------
(* Specification of select_model over all its arguments *)

DoSelectModel ==
    \E task_type \in TaskInputs, context_size \in ContextSizes,
       priority \in Priorities :
        SelectModel(task_type, context_size, priority)

NextSelect == DoSelectModel

SpecSelect == Init /\ [][NextSelect]_vars

---------------------------------------------------------------------------
(* Specification of the model router: selections, executions with every    *)
(* behaviour of task_fn, and statistics, in any order                      *)

DoRouteModel ==
    \E task_type \in {"legal_research", "translation"},
       priority \in {"cost", "quality"} :
        SelectModel(task_type, None, priority)

DoExecuteWithFallback ==
    \E task_type \in ExecuteTasks :
        \E outcomes \in [1..Len(ChainOf(task_type)) -> TaskOutcomes] :
            ExecuteWithFallback(task_type, outcomes)

NextRouter ==
    \/ DoRouteModel
    \/ DoExecuteWithFallback
    \/ GetPerformanceStats

SpecRouter == Init /\ [][NextRouter]_vars

---------------------------------------------------------------------------
(* Specification of the evidence registry alone *)

DoGet == \E source_id \in LookupIds : GetCall(source_id)

DoValidateCitations ==
    \E citation_ids \in LookupLists : ValidateCitationsCall(citation_ids)

NextRegistry ==
    \/ DoRegister
    \/ DoGet
    \/ DoValidateCitations

SpecRegistry == Init /\ [][NextRegistry]_vars

---------------------------------------------------------------------------
(* Specification of execute_with_fallback taken one model attempt at a     *)
(* time                                                                    *)

DoCallExecute ==
    \E task_type \in ExecuteTasks :
        \E outcomes \in [1..Len(ChainOf(task_type)) -> TaskOutcomes] :
            CallExecute(task_type, outcomes)

NextAttempts ==
    \/ DoCallExecute
    \/ AttemptStep

SpecAttempts == Init /\ [][NextAttempts]_vars

---------------------------------------------------------------------------
(* Specification of draft_paragraph interleaved with register calls of     *)
(* another execution context                                               *)

DoCallDraft ==
    \E evidence_ids \in InterleavedIdLists, require_citation \in BOOLEAN :
        CallDraft(<<"T", "e", "s", "t">>, evidence_ids, require_citation)

DoRegisterConcurrently == \E e \in WriterPool : Register(e)

NextInterleaved ==
    \/ DoCallDraft
    \/ DraftStep
    \/ DoRegisterConcurrently

SpecInterleaved == Init /\ [][NextInterleaved]_vars

---------------------------------------------------------------------------
(* Properties of the evidence registry and the drafter *)

IsDraft == ret.op = "draft_paragraph"

\* C1: every evidence id of a Citation resolves in the registry at the
\* moment the Citation is appended, whatever require_citation was.
C1_ZeroHallucination ==
    [][ Len(citations') > Len(citations) =>
          LET c == citations'[Len(citations')]
          IN  \A i \in 1..Len(c.evidence_ids) :
                  c.evidence_ids[i] \in DOMAIN evidence' ]_vars

\* the indexes of ids whose id is not registered, and the k-th of them
C2_AbsentIndexes(ids) == {i \in 1..Len(ids) : ids[i] \notin DOMAIN evidence}
C2_Kth(idx, k) == CHOOSE i \in idx : Cardinality({j \in idx : j < i}) = k - 1

\* C2: draft_paragraph with require_citation and a non-empty list holding an
\* unregistered id raises UnknownEvidence, returns no text, and the error
\* names every unregistered id of the list, repeated ones too, in list order.
C2_UnknownEvidenceNamesAll ==
    (IsDraft /\ ret.require /\ Len(ret.ids) > 0 /\ C2_AbsentIndexes(ret.ids) # {})
    => LET idx == C2_AbsentIndexes(ret.ids)
       IN  /\ ret.raised
           /\ ret.error = "UnknownEvidence"
           /\ ret.text = <<>>
           /\ Len(ret.missing) = Cardinality(idx)
           /\ \A k \in 1..Len(ret.missing) :
                  ret.missing[k] = ret.ids[C2_Kth(idx, k)]

\* both ids of the list are unregistered and both are named, in list order
C2_Witness ==
    /\ IsDraft /\ ret.require /\ ret.raised
    /\ ret.ids = <<"e2", "e1">>
    /\ ret.missing = <<"e2", "e1">>
    /\ ret.text = <<>>

\* C3: draft_paragraph with require_citation and an empty list raises
\* MissingEvidence, whatever the content and the registry.
C3_EmptyListIsMissingEvidence ==
    (IsDraft /\ ret.require /\ Len(ret.ids) = 0)
    => (ret.raised /\ ret.error = "MissingEvidence" /\ ret.text = <<>>)

C3_Witness ==
    /\ IsDraft /\ ret.require /\ Len(ret.ids) = 0
    /\ ret.error = "MissingEvidence"
    /\ DOMAIN evidence = SourceIds
    /\ Len(ret.content) > 0

\* C4: draft_paragraph without require_citation and with an empty list
\* returns exactly the content it was given.
C4_ReturnsContentUnchanged ==
    (IsDraft /\ ~ret.require /\ Len(ret.ids) = 0 /\ ~ret.raised)
    => ret.text = ret.content

C5_HasLabel(ev) == ev.exhibit_number # None /\ ev.exhibit_number[1] # <<>>
C5_HasPages(ev) == ev.page_numbers # None /\ ev.page_numbers[1] # <<>>

C5_PagePart(pn) ==
    IF Len(pn) = 1
    THEN <<"p", ".", " ">> \o IntToStr(pn[1])
    ELSE <<"p", "p", ".", " ">> \o IntToStr(pn[1]) \o <<"-">>
         \o IntToStr(pn[Len(pn)])

\* the fragment the claim gives one evidence source
C5_Fragment(ev) ==
    CASE C5_HasLabel(ev) /\ C5_HasPages(ev) ->
             <<"E", "x", ".", " ">> \o ev.exhibit_number[1] \o <<",", " ">>
             \o C5_PagePart(ev.page_numbers[1])
      [] C5_HasLabel(ev) /\ ~C5_HasPages(ev) ->
             <<"E", "x", ".", " ">> \o ev.exhibit_number[1]
      [] ~C5_HasLabel(ev) /\ C5_HasPages(ev) ->
             C5_PagePart(ev.page_numbers[1])
      [] OTHER -> <<>>

\* the fragments of ids[i..], each after the first preceded by "; "
RECURSIVE C5_Fragments(_, _)
C5_Fragments(ids, i) ==
    IF i > Len(ids) THEN <<>>
    ELSE (IF i > 1 THEN <<";", " ">> ELSE <<>>)
         \o C5_Fragment(evidence[ids[i]]) \o C5_Fragments(ids, i + 1)

\* C5: for a non-empty list of registered ids the citation suffix is one
\* parenthetical with one fragment per id, in list order, joined by "; ":
\* "Ex. <label>" when there is a label, then comma-joined "p. <n>" for one
\* page or "pp. <first>-<last>" for several, no page part without pages.
C5_CitationSuffixFormat ==
    (IsDraft /\ ~ret.raised /\ Len(ret.ids) > 0
       /\ \A i \in 1..Len(ret.ids) : ret.ids[i] \in DOMAIN evidence)
    => ret.suffix = <<"(">> \o C5_Fragments(ret.ids, 1) \o <<")">>

\* label A with pages [1,2,3] followed by label B10 with pages [10,12]
C5_Witness ==
    /\ IsDraft /\ ~ret.raised
    /\ ret.ids = <<"e1", "e2">>
    /\ ret.suffix =
       <<"(", "E", "x", ".", " ", "A", ",", " ", "p", "p", ".", " ", "1", "-",
      "3", ";", " ", "E", "x", ".", " ", "B", "1", "0", ",", " ", "p", "p",
      ".", " ", "1", "0", "-", "1", "2", ")">>

\* the evidence the recorded citations refer to, as the registry holds it
C6_CitedEvidence ==
    { evidence[id] : id \in { CitedIds(citations)[i] :
                              i \in 1..Len(CitedIds(citations)) }
                            \cap DOMAIN evidence }

\* the non-empty exhibit labels of that evidence
C6_Labels ==
    { ev.exhibit_number[1] : ev \in { e \in C6_CitedEvidence : C5_HasLabel(e) } }

C6_Descriptions(label) ==
    { ev.description : ev \in { e \in C6_CitedEvidence :
                                  C5_HasLabel(e) /\ e.exhibit_number[1] = label } }

C6_Render(labels, descs) ==
    Join(<<ExhibitHeader>>
         \o [k \in 1..Len(labels) |->
                ExhibitItem \o labels[k] \o <<":", " ">> \o descs[k]]
         \o <<ExhibitFooter>>, <<"\n">>)

\* C6: generate_exhibit_list lists exactly the non-empty exhibit labels of
\* the evidence the recorded citations refer to, one entry
\* "Exhibit <label>: <description>" per distinct label, in ascending order.
C6_ExhibitListExact ==
    ret.op = "generate_exhibit_list"
    => LET n == Cardinality(C6_Labels)
       IN  \E labels \in [1..n -> C6_Labels] :
               /\ \A i, j \in 1..n : i < j => StrLess(labels[i], labels[j])
               /\ \E descs \in [1..n -> UNION {C6_Descriptions(l) : l \in C6_Labels}] :
                      /\ \A i \in 1..n : descs[i] \in C6_Descriptions(labels[i])
                      /\ ret.text = C6_Render(labels, descs)

\* two labels, the later-sorted one cited first, one label cited three times
C6_Witness ==
    /\ ret.op = "generate_exhibit_list"
    /\ Len(citations) = 2
    /\ citations[1].evidence_ids = <<"e2", "e1">>
    /\ citations[2].evidence_ids = <<"e1", "e1">>
    /\ C6_Labels = { <<"A">>, <<"B", "1", "0">> }

\* C7: the exhibit list does not depend on the order in which the citations
\* were recorded: every permutation of the citation list gives the same list.
C7_OrderIndependent ==
    \A p \in Permutations(1..Len(citations)) :
        ExhibitList([i \in 1..Len(citations) |-> citations[p[i]]], evidence)
        = ExhibitList(citations, evidence)

\* all claim-pattern matches of a document, in scan order
RECURSIVE C8_Matches(_, _)
C8_Matches(doc, p) ==
    IF p > Len(ClaimPatterns) THEN <<>>
    ELSE FindIter(ClaimPatterns[p], doc) \o C8_Matches(doc, p + 1)

\* the groups of the matches with no citation location in
\* (start - reach) .. (start + reach)
C8_Uncited(doc, reach) ==
    LET far == SelectSeq(C8_Matches(doc, 1),
                   LAMBDA m : ~\E k \in 1..Len(citations) :
                       /\ m.start - reach <= citations[k].location
                       /\ citations[k].location <= m.start + reach)
    IN  [k \in 1..Len(far) |-> far[k].group]

---------------------------------------------------------------------------
(* Properties of the compliance validator *)

IsCompliance == ret.op = "compliance_validate_document"

\* C9: validate_document with an unregistered court id fails with the
\* UnknownCourt error: it raises, and no violation report is produced.
C9_UnknownCourtIsRaised ==
    (IsCompliance /\ ret.court \notin DOMAIN profiles)
    => (ret.raised /\ ret.error = "UnknownCourt" /\ ret.items = <<>>)

\* C9 as amended: validate_document with an unregistered court id does not
\* raise; it returns the not-compliant flag with a violation list of exactly
\* one entry, the unknown-court message naming the id, so no formatting,
\* filing or special-rule check has added to it.
C9_UnknownCourtIsReported ==
    (IsCompliance /\ ret.court \notin DOMAIN profiles)
    => /\ ~ret.raised
       /\ ~ret.flag
       /\ ret.items = <<Violation("Unknown court ID: {}", <<ret.court>>)>>

\* an unregistered court with a document that fails the default formatting
C9_Witness ==
    /\ IsCompliance
    /\ ret.court = "nowhere"
    /\ ret.path = "empty.tex"
    /\ Len(ret.items) = 1

\* the violation of each check a profile requires
C10_Required(profile) ==
    { v \in
        { [need |-> Len(profile.formatting.font_family) > 0,
           viol |-> Violation("Required font '{}' not specified",
                              profile.formatting.font_family)],
          [need |-> profile.formatting.line_spacing # 0,
           viol |-> Violation("Required line spacing {} not set",
                              FloatToStr(profile.formatting.line_spacing))],
          [need |-> profile.filing.certificate_of_service_required,
           viol |-> Violation("Certificate of Service required but not found", <<>>)],
          [need |-> profile.filing.verification_required,
           viol |-> Violation("Verification required but not found", <<>>)],
          [need |-> profile.filing.table_of_authorities_required,
           viol |-> Violation("Table of Authorities required but not found", <<>>)],
          [need |-> RuleSet(profile.special_rules, "pro_se_notice_required"),
           viol |-> Violation("Pro se notice may be required for self-represented litigants", <<>>)],
          [need |-> RuleSet(profile.special_rules, "certificate_of_compliance_required"),
           viol |-> Violation("Certificate of Compliance required but not found", <<>>)] } :
        v.need }

\* C10: a path that does not exist raises no error and gives the report of
\* an existing empty file; for empty text against a registered profile the
\* report holds exactly one violation for every check the profile requires.
C10_EmptyTextFailsEveryRequiredCheck ==
    (/\ IsCompliance
     /\ ret.court \in DOMAIN profiles
     /\ (ret.path \notin DOMAIN FileSystem \/ FileSystem[ret.path] = <<>>))
    => LET required == C10_Required(profiles[ret.court])
       IN  /\ ~ret.raised
           /\ Len(ret.items) = Cardinality(required)
           /\ {ret.items[i] : i \in 1..Len(ret.items)} = {v.viol : v \in required}
           /\ ret.flag = (required = {})
           /\ ret.items = ComplianceReport(profiles, "empty.tex", ret.court)[2]

\* a missing path against hi_family as constructed: certificate of service,
\* verification and the pro se notice are all reported
C10_Witness ==
    /\ IsCompliance
    /\ ret.path = "missing.tex"
    /\ ret.court = "hi_family"
    /\ profiles["hi_family"] = HawaiiFamily
    /\ {"Certificate of Service required but not found",
        "Verification required but not found",
        "Pro se notice may be required for self-represented litigants"}
       \subseteq {ret.items[i].msg : i \in 1..Len(ret.items)}

\* the filing and special-rule checks in report order: whether the profile
\* sets the flag, the keyword looked for, the message of the violation
C11_Checks(profile) ==
    << [set |-> profile.filing.certificate_of_service_required,
        keyword |-> <<"c", "e", "r", "t", "i", "f", "i", "c", "a", "t", "e", " ", "o", "f",
      " ", "s", "e", "r", "v", "i", "c", "e">>,
        msg |-> "Certificate of Service required but not found"],
       [set |-> profile.filing.verification_required,
        keyword |-> <<"v", "e", "r", "i", "f", "i", "c", "a", "t", "i", "o", "n">>,
        msg |-> "Verification required but not found"],
       [set |-> profile.filing.table_of_authorities_required,
        keyword |-> <<"t", "a", "b", "l", "e", " ", "o", "f", " ", "a", "u", "t", "h", "o",
      "r", "i", "t", "i", "e", "s">>,
        msg |-> "Table of Authorities required but not found"],
       [set |-> RuleSet(profile.special_rules, "pro_se_notice_required"),
        keyword |-> <<"p", "r", "o", " ", "s", "e">>,
        msg |-> "Pro se notice may be required for self-represented litigants"],
       [set |-> RuleSet(profile.special_rules, "certificate_of_compliance_required"),
        keyword |-> <<"c", "e", "r", "t", "i", "f", "i", "c", "a", "t", "e", " ", "o", "f",
      " ", "c", "o", "m", "p", "l", "i", "a", "n", "c", "e">>,
        msg |-> "Certificate of Compliance required but not found"] >>

\* the keyword stands somewhere in the text, letter case ignored
C11_HasIgnoringCase(text, keyword) ==
    \E i \in 1..(Len(text) - Len(keyword) + 1) :
        \A k \in 1..Len(keyword) : LowerChar(text[i + k - 1]) = keyword[k]

\* C11: for a registered court the report is the formatting violations,
\* then the filing violations, then the special-rule violations; a filing
\* or special-rule violation is there exactly when its flag is set and its
\* keyword is absent from the text, case ignored; the flag is true exactly
\* when the list is empty.
C11_ReportIsOrderedConcatenation ==
    (IsCompliance /\ ret.court \in DOMAIN profiles)
    => LET profile == profiles[ret.court]
           text == ReadDocument(ret.path)
           fmt == CheckFormatting(text, profile.formatting)
           checks == C11_Checks(profile)
           rest == SubSeq(ret.items, Len(fmt) + 1, Len(ret.items))
           rank(v) == CHOOSE c \in 1..Len(checks) : checks[c].msg = v.msg
       IN  /\ Len(ret.items) >= Len(fmt)
           /\ SubSeq(ret.items, 1, Len(fmt)) = fmt
           /\ \A i \in 1..Len(rest) :
                  \E c \in 1..Len(checks) : checks[c].msg = rest[i].msg
           /\ \A i, j \in 1..Len(rest) : i < j => rank(rest[i]) < rank(rest[j])
           /\ \A c \in 1..Len(checks) :
                  (\E i \in 1..Len(rest) : rest[i].msg = checks[c].msg)
                  <=> (checks[c].set
                       /\ ~C11_HasIgnoringCase(text, checks[c].keyword))
           /\ ret.flag = (ret.items = <<>>)

\* the test document against ca9: font and line spacing, then the table of
\* authorities, then the certificate of compliance; the certificate of
\* service is found although the text capitalises it
C11_Witness ==
    /\ IsCompliance
    /\ ret.path = "test.tex"
    /\ ret.court = "ca9"
    /\ profiles["ca9"] = NinthCircuit
    /\ [i \in 1..Len(ret.items) |-> ret.items[i].msg]
       = <<"Required font '{}' not specified",
           "Required line spacing {} not set",
           "Table of Authorities required but not found",
           "Certificate of Compliance required but not found">>

\* the document holds the font directive of hi_family, a double-spacing
\* directive, and the texts "Certificate of Service" and "Verification"
\* (in any letter case)
C12_WellFormed(text) ==
    /\ Contains(text, <<"\\", "s", "e", "t", "m", "a", "i", "n", "f", "o", "n", "t", "{",
      "T", "i", "m", "e", "s", " ", "N", "e", "w", " ", "R", "o", "m", "a",
      "n", "}">>)
    /\ \/ Contains(text, <<"\\", "d", "o", "u", "b", "l", "e", "s", "p", "a", "c", "i", "n", "g">>)
       \/ Contains(text, <<"\\", "2", ".", "0">>)
    /\ C11_HasIgnoringCase(text, <<"c", "e", "r", "t", "i", "f", "i", "c", "a", "t", "e", " ", "o", "f",
      " ", "s", "e", "r", "v", "i", "c", "e">>)
    /\ C11_HasIgnoringCase(text, <<"v", "e", "r", "i", "f", "i", "c", "a", "t", "i", "o", "n">>)

\* C12: such a document, validated against the hi_family profile as
\* constructed, is reported compliant or with fewer than 3 violations, of
\* which the formatting check gives at most one for the line spacing and
\* none for the font.
C12_WellFormedHasFewViolations ==
    (/\ IsCompliance
     /\ ret.court = "hi_family"
     /\ profiles["hi_family"] = HawaiiFamily
     /\ C12_WellFormed(ReadDocument(ret.path)))
    => /\ ret.flag \/ Len(ret.items) < 3
       /\ Cardinality({i \in 1..Len(ret.items) :
              ret.items[i].msg = "Required line spacing {} not set"}) <= 1
       /\ \A i \in 1..Len(ret.items) :
              ret.items[i].msg # "Required font '{}' not specified"

\* the document of test_jurisdiction_compliance: two violations, not
\* compliant
C12_Witness ==
    /\ IsCompliance
    /\ ret.court = "hi_family"
    /\ profiles["hi_family"] = HawaiiFamily
    /\ ret.path = "test.tex"
    /\ C12_WellFormed(ReadDocument(ret.path))
    /\ ~ret.flag
    /\ Len(ret.items) = 2

\* the court level get_profile gives for a court id, None when it gives no
\* profile
C13_Level(reg, court_id) ==
    LET p == GetProfile(reg, court_id)
    IN  IF p = None THEN None ELSE Some(p[1].court_level)

\* C13: a registry on which nothing has been called yet resolves
\* hi_family, cand and ca9 to the levels state_family, federal_district and
\* federal_circuit, and after any register_profile calls each of the three
\* still resolves to a profile.
C13_DefaultCourtsAlwaysResolve ==
    /\ ret = NoRet =>
          /\ C13_Level(profiles, "hi_family") = Some("state_family")
          /\ C13_Level(profiles, "cand") = Some("federal_district")
          /\ C13_Level(profiles, "ca9") = Some("federal_circuit")
    /\ \A c \in {"hi_family", "cand", "ca9"} : GetProfile(profiles, c) # None

\* register_profile has added a court and replaced the hi_family profile
C13_Witness ==
    /\ "bare" \in DOMAIN profiles
    /\ GetProfile(profiles, "hi_family") \notin {None, Some(HawaiiFamily)}
    /\ GetProfile(profiles, "cand") = Some(NorthernCalifornia)

---------------------------------------------------------------------------
(* Properties of the model router *)

IsSelect == ret.op = "select_model"

\* model a is strictly better than model b under a priority
C14_Better(priority, a, b) ==
    IF priority = "cost"
    THEN ModelProfiles[a].cost_per_1k_tokens < ModelProfiles[b].cost_per_1k_tokens
    ELSE IF priority = "speed"
    THEN ModelProfiles[a].avg_latency < ModelProfiles[b].avg_latency
    ELSE ModelProfiles[a].reliability > ModelProfiles[b].reliability

\* C14: with a non-empty candidate list select_model returns a candidate
\* that no candidate beats (cost: cheapest, speed: fastest, any other
\* priority: most reliable) and that beats every candidate before it in the
\* list; select_model("legal_research", priority="cost") returns the
\* cheapest member of the legal-research chain.
C14_PriorityDecides ==
    /\ (IsSelect /\ ret.candidates # <<>>) =>
          LET c == ret.candidates
              m == ret.model[1]
          IN  \E i \in 1..Len(c) :
                  /\ c[i] = m
                  /\ \A j \in 1..Len(c) : ~C14_Better(ret.priority, c[j], m)
                  /\ \A j \in 1..(i - 1) : C14_Better(ret.priority, m, c[j])
    /\ (IsSelect /\ ret.task = "legal_research" /\ ret.context = None
                 /\ ret.priority = "cost") =>
          LET chain == FallbackChains["legal_research"]
          IN  \E i \in 1..Len(chain) :
                  /\ chain[i] = ret.model[1]
                  /\ \A j \in 1..Len(chain) :
                         ModelProfiles[chain[i]].cost_per_1k_tokens
                             <= ModelProfiles[chain[j]].cost_per_1k_tokens

\* select_model("legal_research", priority="cost") has returned the
\* cheapest model of that chain
C14_Witness ==
    /\ IsSelect
    /\ ret.task = "legal_research"
    /\ ret.context = None
    /\ ret.priority = "cost"
    /\ ret.candidates = <<PERPLEXITY, CLAUDE_3_OPUS, GPT4>>
    /\ ret.model = Some(PERPLEXITY)

\* C15: with a context_size the candidates are the chain members whose
\* max_context is at least context_size, in chain order; when there is
\* none, select_model returns gpt-4 under every priority.
C15_ContextFilter ==
    (IsSelect /\ ret.context # None) =>
        LET chain == ChainOf(ToTaskType(ret.task))
            keep == {i \in 1..Len(chain) :
                        ModelProfiles[chain[i]].max_context >= ret.context[1]}
            c == ret.candidates
        IN  /\ Len(c) = Cardinality(keep)
            /\ \E at \in [1..Len(c) -> keep] :
                   /\ \A k \in 1..Len(c) : c[k] = chain[at[k]]
                   /\ \A k \in 1..(Len(c) - 1) : at[k] < at[k + 1]
            /\ keep = {} => ret.model = Some(GPT4)

\* no model of the citation-checking chain has a context of 200001 tokens:
\* gpt-4 is returned although the priority is cost
C15_Witness ==
    /\ IsSelect
    /\ ret.task = "citation_checking"
    /\ ret.context = Some(200001)
    /\ ret.priority = "cost"
    /\ ret.candidates = <<>>
    /\ ret.model = Some(GPT4)

\* C16: for a task_type outside the five identifiers select_model returns
\* what it returns for "legal_analysis" with the same context_size and
\* priority; for every task_type it returns a model and does not raise.
C16_UnknownTaskIsLegalAnalysis ==
    IsSelect =>
        /\ ~ret.raised
        /\ ret.model # None
        /\ ret.model[1] \in ModelTypes
        /\ ret.task \notin TaskTypes =>
               ret.model = Some(SelectedModel("legal_analysis", ret.context,
                                              ret.priority))

\* an unknown task under priority cost gets the cheapest model of the
\* legal-analysis chain
C16_Witness ==
    /\ IsSelect
    /\ ret.task = "translation"
    /\ ret.priority = "cost"
    /\ ret.context = None
    /\ ret.model = Some(CLAUDE_3_SONNET)

IsExecute == ret.op = "execute_with_fallback"

\* the number of models at the head of the chain on which task_fn raises
C17_Failures(outcomes) ==
    CHOOSE k \in 0..Len(outcomes) :
        /\ \A i \in 1..k : outcomes[i].raises
        /\ k < Len(outcomes) => ~outcomes[k + 1].raises

\* C17: when task_fn raises on the first k models of the chain and returns
\* on model k+1, execute_with_fallback returns a success of model k+1 and
\* the call appends k+1 entries to the log, one per model in chain order,
\* k failures then the success; every call of task_fn appends one entry, so
\* no model is called twice and none after model k+1.
C17_StopsAtFirstSuccess ==
    [][ ret'.op = "execute_with_fallback" =>
          LET chain == ChainOf(ret'.task)
              k == C17_Failures(ret'.outcomes)
              old == Len(performance_log)
          IN  k < Len(chain) =>
                  /\ ~ret'.raised
                  /\ ret'.result[1].success
                  /\ ret'.result[1].model_used = chain[k + 1]
                  /\ ret'.result[1].output = Some(ret'.outcomes[k + 1].value)
                  /\ Len(performance_log') = old + k + 1
                  /\ \A i \in 1..(k + 1) :
                         /\ performance_log'[old + i].model_used = chain[i]
                         /\ performance_log'[old + i].success = (i = k + 1)
                  /\ performance_log'[old + k + 1] = ret'.result[1]
      ]_vars

\* k = 1 on a fresh router: the first model of the legal-analysis chain
\* raised, the second answered, and the log is a failure then a success
C17_Witness ==
    /\ IsExecute
    /\ ret.task = "legal_analysis"
    /\ ret.outcomes[1].raises
    /\ ~ret.outcomes[2].raises
    /\ ret.result[1].success
    /\ ret.result[1].model_used = CLAUDE_3_OPUS
    /\ Len(performance_log) = 2
    /\ ~performance_log[1].success
    /\ performance_log[1].model_used = GPT4
    /\ performance_log[2].success
    /\ performance_log[2].model_used = CLAUDE_3_OPUS

\* C18: when task_fn raises on every model of the chain,
\* execute_with_fallback does not raise; it returns the failure of the last
\* model (no output, the error text of that last attempt), and the call
\* appends one failure per model of the chain, in chain order.
C18_ExhaustionReturnsLastFailure ==
    [][ (/\ ret'.op = "execute_with_fallback"
         /\ \A i \in 1..Len(ret'.outcomes) : ret'.outcomes[i].raises) =>
          LET chain == ChainOf(ret'.task)
              n == Len(chain)
              old == Len(performance_log)
              result == ret'.result[1]
          IN  /\ ~ret'.raised
              /\ ~result.success
              /\ result.output = None
              /\ result.model_used = chain[n]
              /\ result.error = Some(ret'.outcomes[n].value)
              /\ Len(performance_log') = old + n
              /\ \A i \in 1..n :
                     /\ performance_log'[old + i].model_used = chain[i]
                     /\ ~performance_log'[old + i].success
                     /\ performance_log'[old + i].error
                            = Some(ret'.outcomes[i].value)
      ]_vars

\* the three models of the evidence-review chain raised, with different
\* errors on the first and the last, and the last failure was returned
C18_Witness ==
    /\ IsExecute
    /\ ret.task = "evidence_review"
    /\ \A i \in 1..3 : ret.outcomes[i].raises
    /\ ret.outcomes[1].value = "timeout"
    /\ ret.outcomes[3].value = "refused"
    /\ ~ret.result[1].success
    /\ ret.result[1].model_used = LOCAL_LLAMA
    /\ ret.result[1].error = Some("refused")
    /\ Len(performance_log) = 3

\* the attempts of one execute_with_fallback call: task_fn is called on a
\* model when it raised on every model before it
C19_AttemptsOf(task_type, outcomes) ==
    LET chain == ChainOf(task_type)
        k == C17_Failures(outcomes)
        n == IF k < Len(chain) THEN k + 1 ELSE Len(chain)
    IN  [i \in 1..n |-> [model |-> chain[i], outcome |-> outcomes[i]]]

\* C19: every step keeps the entries of the log as they are and in place;
\* select_model and get_performance_stats add nothing, and
\* execute_with_fallback adds one entry per attempt of the call, in the
\* order of the attempts.  The log is therefore the sequence of all
\* attempts made so far.
C19_LogIsAttemptHistory ==
    [][ LET old == Len(performance_log)
        IN  /\ Len(performance_log') >= old
            /\ SubSeq(performance_log', 1, old) = performance_log
            /\ ret'.op \in {"select_model", "get_performance_stats"} =>
                   performance_log' = performance_log
            /\ ret'.op = "execute_with_fallback" =>
                   LET attempts == C19_AttemptsOf(ret'.task, ret'.outcomes)
                   IN  /\ Len(performance_log') = old + Len(attempts)
                       /\ \A i \in 1..Len(attempts) :
                              LET e == performance_log'[old + i]
                                  a == attempts[i]
                              IN  /\ e.model_used = a.model
                                  /\ e.success = ~a.outcome.raises
                                  /\ e.execution_time = a.outcome.time
                                  /\ e.output = IF a.outcome.raises THEN None
                                                ELSE Some(a.outcome.value)
                                  /\ e.error = IF a.outcome.raises
                                               THEN Some(a.outcome.value)
                                               ELSE None
      ]_vars

\* a call of one attempt, then a call of two, then get_performance_stats
C19_Witness ==
    /\ ret.op = "get_performance_stats"
    /\ Len(performance_log) = 3
    /\ performance_log[1].success
    /\ ~performance_log[2].success
    /\ performance_log[3].success
    /\ performance_log[2].model_used # performance_log[3].model_used

\* the number of log entries of a model
C20_Uses(model) ==
    Cardinality({i \in 1..Len(performance_log) :
                    performance_log[i].model_used = model})

\* C20: on an empty log get_performance_stats returns the empty dict and
\* raises no division error; otherwise total_tasks is the length of the
\* log, model_usage has an entry for just the models of the log, each the
\* number of entries of that model (so the entries sum to total_tasks),
\* and success_rate divides the number of successes, at most total_tasks,
\* by total_tasks.
C20_StatsCountTheLog ==
    ret.op = "get_performance_stats" =>
        /\ ~ret.raised
        /\ ret.stats # None
        /\ performance_log = <<>> => ret.stats[1] = << >>
        /\ performance_log # <<>> =>
               LET stats == ret.stats[1]
                   total == Len(performance_log)
               IN  /\ stats.total_tasks = total
                   /\ DOMAIN stats.model_usage =
                          {performance_log[i].model_used : i \in 1..total}
                   /\ \A m \in DOMAIN stats.model_usage :
                          stats.model_usage[m] = C20_Uses(m)
                   /\ stats.success_rate.den = total
                   /\ stats.success_rate.num =
                          Cardinality({i \in 1..total : performance_log[i].success})
                   /\ stats.success_rate.num <= total
                   /\ stats.avg_execution_time.den = total

\* statistics of three entries, two of them of gpt-4, one success
C20_Witness ==
    /\ ret.op = "get_performance_stats"
    /\ Len(performance_log) = 3
    /\ ret.stats[1].total_tasks = 3
    /\ Cardinality(DOMAIN ret.stats[1].model_usage) = 2
    /\ GPT4 \in DOMAIN ret.stats[1].model_usage
    /\ ret.stats[1].model_usage[GPT4] = 2
    /\ ret.stats[1].success_rate = [num |-> 1, den |-> 3]

\* C21: in every state the chain table has a chain for each of the five
\* task types, each chain non-empty, without a repeated model and made of
\* models of the capability table, and both tables are as constructed.
C21_ChainTableWellFormed ==
    /\ DOMAIN fallback_chains = TaskTypes
    /\ \A t \in TaskTypes :
           LET chain == fallback_chains[t]
           IN  /\ Len(chain) >= 1
               /\ \A i, j \in 1..Len(chain) : chain[i] = chain[j] => i = j
               /\ \A i \in 1..Len(chain) : chain[i] \in DOMAIN model_profiles
    /\ fallback_chains = FallbackChains
    /\ model_profiles = ModelProfiles

\* the tables after a selection, two executions and the statistics
C21_Witness ==
    /\ ret.op = "get_performance_stats"
    /\ Len(performance_log) = 3
    /\ performance_log[1].model_used = PERPLEXITY
    /\ performance_log[3].model_used = GPT4
    /\ fallback_chains["legal_research"] = <<PERPLEXITY, CLAUDE_3_OPUS, GPT4>>
    /\ DOMAIN model_profiles = ModelTypes

\* execute_with_fallback was called for one of the five task types and
\* task_fn raised on every model of the chain
C22_Exhausted ==
    /\ IsExecute
    /\ ret.task \in TaskTypes
    /\ \A i \in 1..Len(ret.outcomes) : ret.outcomes[i].raises

\* the model select_model returns when no candidate qualifies
C22_Default == SelectedModel("legal_analysis", Some(200001), "quality")

\* C22 as claimed: the chain execute_with_fallback walks for a task type
\* ends in the default model of select_model, so that model is the last one
\* an exhausted execute_with_fallback tried.
C22_EveryChainEndsInDefault ==
    /\ (IsExecute /\ ret.task \in TaskTypes) =>
           LET chain == fallback_chains[ret.task]
           IN  chain[Len(chain)] = C22_Default
    /\ C22_Exhausted =>
           performance_log[Len(performance_log)].model_used = C22_Default

\* the task types whose chain ends in gpt-4
C22_EndingInDefault == {"legal_research", "citation_checking"}

\* C22 amended: every chain contains the default model of select_model
\* (gpt-4), but it is the last model of the chain, and so the last model an
\* exhausted execute_with_fallback tried, for legal research and citation
\* checking only; the chains of document generation and legal analysis end
\* in claude-3-sonnet and that of evidence review in local-llama.
C22_EveryChainHoldsDefault ==
    /\ C22_Default = GPT4
    /\ \A t \in TaskTypes :
           LET chain == fallback_chains[t]
           IN  /\ \E i \in 1..Len(chain) : chain[i] = GPT4
               /\ chain[Len(chain)] = GPT4 <=> t \in C22_EndingInDefault
               /\ t \in {"document_generation", "legal_analysis"} =>
                      chain[Len(chain)] = CLAUDE_3_SONNET
               /\ t = "evidence_review" => chain[Len(chain)] = LOCAL_LLAMA
    /\ C22_Exhausted =>
           (performance_log[Len(performance_log)].model_used = GPT4
               <=> ret.task \in C22_EndingInDefault)

\* task_fn raised on the three models of the document-generation chain: the
\* last model tried is claude-3-sonnet
C22_Witness ==
    /\ C22_Exhausted
    /\ ret.task = "document_generation"
    /\ Len(performance_log) = 3
    /\ performance_log[2].model_used = GPT4
    /\ performance_log[3].model_used = CLAUDE_3_SONNET
    /\ ret.result[1].model_used = CLAUDE_3_SONNET

---------------------------------------------------------------------------
(* Frame properties of the drafter and the evidence registry *)

\* C23: a draft_paragraph call that returns appends one Citation holding
\* the call's content, its id list and the length of the content, and
\* leaves the earlier Citations and the registry as they are; a
\* draft_paragraph call that raises, validate_document and
\* generate_exhibit_list leave the citation sequence and the registry as
\* they are; no step shortens or rewrites the sequence.  The sequence is
\* therefore the Citations of the calls that returned, in call order.
C23_CitationsAreCallHistory ==
    [][ /\ Len(citations') >= Len(citations)
        /\ SubSeq(citations', 1, Len(citations)) = citations
        /\ (ret'.op = "draft_paragraph" /\ ~ret'.raised) =>
               /\ citations' = Append(citations,
                      [text |-> ret'.content, evidence_ids |-> ret'.ids,
                       location |-> Len(ret'.content)])
               /\ evidence' = evidence
        /\ (\/ ret'.op = "draft_paragraph" /\ ret'.raised
            \/ ret'.op \in {"validate_document", "generate_exhibit_list"}) =>
               /\ citations' = citations
               /\ evidence' = evidence
      ]_vars

\* two calls returned, the second with another id list, and a third call
\* raised for an unknown id
C23_Witness ==
    /\ IsDraft
    /\ ret.raised
    /\ ret.error = "UnknownEvidence"
    /\ Len(citations) = 2
    /\ citations[1].evidence_ids = <<"e1">>
    /\ citations[2].evidence_ids = <<>>
    /\ citations[1].location = 4
    /\ citations[2].location = 0

\* C24: after register(e), get of e.source_id gives e, every other id maps
\* to what it mapped to before, and the registered ids are those of before
\* and e.source_id; get and validate_citations change nothing, and get of
\* an id outside the registered ids, that is of an id never registered,
\* gives None.  No step removes an id.
C24_RegisterIsUpsert ==
    [][ /\ DOMAIN evidence \subseteq DOMAIN evidence'
        /\ ret'.op = "register" =>
               LET e == ret'.source[1]
               IN  /\ Get(evidence', e.source_id) = Some(e)
                   /\ DOMAIN evidence' = DOMAIN evidence \cup {e.source_id}
                   /\ \A k \in LookupIds \ {e.source_id} :
                          Get(evidence', k) = Get(evidence, k)
        /\ ret'.op \in {"get", "validate_citations"} =>
               /\ evidence' = evidence
               /\ citations' = citations
        /\ ret'.op = "get" =>
               LET source_id == ret'.ids[1]
               IN  IF source_id \in DOMAIN evidence
                   THEN ret'.source = Some(evidence[source_id])
                   ELSE ret'.source = None
      ]_vars

\* register has replaced the record of e1 while e2 kept its own, and get
\* of e3 gave None
C24_Witness ==
    /\ ret.op = "get"
    /\ ret.ids = <<"e3">>
    /\ ret.source = None
    /\ DOMAIN evidence = {"e1", "e2"}
    /\ evidence["e1"].description = <<"V">>
    /\ evidence["e2"].description = <<"Y">>

---------------------------------------------------------------------------
(* Properties of calls taken step by step *)

\* the execute_with_fallback call in progress in frame value fr
C25_Running(fr) == fr # None /\ fr[1].op = "execute_with_fallback"

\* C25: while execute_with_fallback runs, the task_fn calls made are those
\* on the models before the one the loop is at, which is a model of the
\* chain; every step of the call makes one task_fn call, on that model,
\* logs it, and then returns or moves to the next model.  A call on a chain
\* of n models therefore returns after at most n task_fn calls, none of
\* them a second call on a model.
C25_AtMostOneCallPerModel ==
    [][ /\ C25_Running(frame') =>
               /\ frame'[1].calls = frame'[1].i - 1
               /\ frame'[1].i <= Len(frame'[1].fallback_chain)
        /\ C25_Running(frame) =>
               LET f == frame[1]
               IN  /\ f.calls + 1 <= Len(f.fallback_chain)
                   /\ performance_log' =
                          Append(performance_log,
                                 TaskResult(f.fallback_chain[f.i], f.outcomes[f.i]))
                   /\ \/ frame' = None /\ ret'.op = "execute_with_fallback"
                      \/ frame' = Some([f EXCEPT !.i = f.i + 1,
                                                 !.calls = f.calls + 1])
      ]_vars

\* task_fn has raised on the first two models of the evidence-review
\* chain and the loop is at the third, the last
C25_Witness ==
    /\ C25_Running(frame)
    /\ frame[1].task_type = "evidence_review"
    /\ frame[1].calls = 2
    /\ frame[1].i = 3
    /\ Len(performance_log) = 2
    /\ ~performance_log[1].success
    /\ ~performance_log[2].success

---------------------------------------------------------------------------
(* Further properties of the model router *)

\* select_model was called with a positive context_size
C26_ContextSupplied ==
    IsSelect /\ ret.context # None /\ ret.context[1] > 0

\* C26 as claimed: the model select_model returns for a positive
\* context_size has a max_context of at least context_size.
C26_ReturnedModelFits ==
    C26_ContextSupplied =>
        ModelProfiles[ret.model[1]].max_context >= ret.context[1]

\* a model of the chain of the call's task can hold the context
C26_SomeModelFits ==
    LET chain == ChainOf(ToTaskType(ret.task))
    IN  \E i \in 1..Len(chain) :
            ModelProfiles[chain[i]].max_context >= ret.context[1]

\* C26 amended: when a model of the task's chain has a max_context of at
\* least the positive context_size, the returned model has one too; when
\* no model of the chain has, gpt-4 is returned, whose max_context is
\* smaller than context_size.
C26_ReturnedModelFitsWhenOneDoes ==
    C26_ContextSupplied =>
        IF C26_SomeModelFits
        THEN ModelProfiles[ret.model[1]].max_context >= ret.context[1]
        ELSE /\ ret.model = Some(GPT4)
             /\ ModelProfiles[GPT4].max_context < ret.context[1]

\* under priority cost and a context of 200000 tokens the cheapest model of
\* the legal-research chain, perplexity, is passed over for claude-3-opus
C26_Witness ==
    /\ C26_ContextSupplied
    /\ ret.task = "legal_research"
    /\ ret.context = Some(200000)
    /\ ret.priority = "cost"
    /\ ret.model = Some(CLAUDE_3_OPUS)

\* C27: for each of the five task types the result execute_with_fallback
\* returns is the entry the call appended to the log last: a success, or
\* the failure of the last model of the chain; it is never the result
\* "No models available" built after the loop.
C27_ReturnsLastLoggedEntry ==
    [][ (ret'.op = "execute_with_fallback" /\ ret'.task \in TaskTypes) =>
          LET chain == fallback_chains[ret'.task]
              result == ret'.result[1]
          IN  /\ Len(performance_log') > Len(performance_log)
              /\ result = performance_log'[Len(performance_log')]
              /\ result.success \/ result.model_used = chain[Len(chain)]
              /\ result # NoModelsAvailable(chain)
              /\ result.error # Some("No models available")
      ]_vars

\* the third model of the citation-checking chain answered after two
\* failures: the result returned is the third entry of the log
C27_Witness ==
    /\ IsExecute
    /\ ret.task = "citation_checking"
    /\ ret.outcomes[1].raises
    /\ ret.outcomes[2].raises
    /\ ~ret.outcomes[3].raises
    /\ Len(performance_log) = 3
    /\ ret.result = Some(performance_log[3])
    /\ ret.result[1].success
    /\ ret.result[1].model_used = GPT4

\* the draft_paragraph call with require_citation=True in progress in
\* frame value fr
C28_Drafting(fr) ==
    fr # None /\ fr[1].op = "draft_paragraph" /\ fr[1].require_citation

\* the ids of the call in frame value fr that validation has passed
C28_Passed(fr) ==
    LET f == fr[1]
        ids == f.evidence_ids
        tested == IF f.pc = "validate" THEN 1..(f.i - 1)
                  ELSE IF f.pc \in {"format", "record"} THEN 1..Len(ids)
                  ELSE {}
    IN  {ids[j] : j \in {k \in tested : \A m \in 1..Len(f.missing) :
                                            f.missing[m] # ids[k]}}

\* C28: with register calls interleaved at every point of a
\* draft_paragraph call with require_citation=True, no step takes an id
\* out of the registry; the ids validation has passed resolve in every
\* state of the call, so the suffix has one fragment for each id and the
\* ids of the Citation resolve when it is appended.
C28_ValidatedIdsKeepResolving ==
    [][ /\ DOMAIN evidence \subseteq DOMAIN evidence'
        /\ C28_Drafting(frame') =>
               /\ C28_Passed(frame') \subseteq DOMAIN evidence'
               /\ frame'[1].pc = "record" =>
                      Len(frame'[1].cites) = Len(frame'[1].evidence_ids)
        /\ (C28_Drafting(frame) /\ Len(citations') > Len(citations)) =>
               LET c == citations'[Len(citations')]
               IN  /\ c.evidence_ids = frame[1].evidence_ids
                   /\ \A j \in 1..Len(c.evidence_ids) :
                          c.evidence_ids[j] \in DOMAIN evidence'
      ]_vars

\* the suffix of a call citing e1 and e2 is formatted and the Citation is
\* about to be appended, and the record of e1 is no longer the one its
\* fragment was formatted from
C28_Witness ==
    /\ C28_Drafting(frame)
    /\ frame[1].pc = "record"
    /\ frame[1].evidence_ids = <<"e1", "e2">>
    /\ Len(frame[1].cites) = 2
    /\ frame[1].cites[1] # Join(CiteParts(evidence["e1"]), <<",", " ">>)

=============================================================================
